---- MODULE Spec2Model ----
(***************************************************************************)
(* Model of the dogsg directory: the MapDirectory component (filter/rank   *)
(* pipeline, search, map source, geolocation) of                           *)
(* src/components/MapDirectory.tsx, lines 553-1039.                        *)
(*                                                                         *)
(* Numbers.  Coordinates are integers on a 0.01 degree grid next to the    *)
(* equator (Singapore is at 1.35 N).  Distances are integers in metres, so *)
(* the field distanceKm of the model holds the kilometre value of the code *)
(* times 1000, and radiusKm is compared after the same scaling.            *)
(* Strings that the code inspects (name, address, the search text) are     *)
(* sequences of one-character strings.  null is the empty tuple <<>>.      *)
(***************************************************************************)
EXTENDS Integers, Sequences, FiniteSets, TLC

VARIABLES
    listings,            \* SAMPLE_LISTINGS, the loaded collection
    selectedCategories,  \* useState, line 561
    userPos,             \* useState, line 564: Null or [lat, lng]
    radiusKm,            \* useState, line 565
    geoError,            \* useState, line 566: Null or <<text>>
    searchText,          \* useState, line 569
    appliedQuery,        \* useState, line 570
    filtered,            \* useMemo, line 581
    searchFiltered,      \* useMemo, line 592
    token,               \* NEXT_PUBLIC_MAPBOX_TOKEN is set, line 554
    mounted,             \* the component is mounted
    mapRef,              \* useRef, line 557: "null" or "map"
    mapLoaded,           \* the map's load event has fired
    listingsSource,      \* the map's "listings" source: Null or <<features>>
    loadGeojson,         \* the geojson the load handler closed over, line 708
    effectPending,       \* the effect of line 835 is due to run
    geoSupported,        \* navigator.geolocation exists, line 876
    geoReq,              \* the getCurrentPosition calls, line 881
    maps,                \* the mapboxgl.Map instances made so far, line 679
    script,              \* the offline script that runs, "none" in the page
    apiKey,              \* the script's API-key environment variable is set
    pc,                  \* where the script is: "start", "loop" or "done"
    input,               \* the records the script has read from its input
    idx,                 \* the records (or jobs) the script's loop has done
    out,                 \* the array the script builds for its output file
    side,                \* the script's second structure (used, rejected...)
    requests,            \* the calls of fetch so far
    errors,              \* the records (or jobs) whose API call has failed
    written,             \* the files on disk: file name :> content
    exit,                \* Null while running, <<code>> once the process ended
    nav,                 \* the last page request and what it was served
    popup,               \* popupRef, line 558: Null or <<k>>, the k-th popup made
    popups,              \* the mapboxgl.Popup instances made so far, line 647
    hav,                 \* the last call of haversineKm: its points and results
    candidates,          \* carousel useState, line 32: the preloaders to render
    images,              \* carousel useState, line 33
    index,               \* carousel useState, line 34
    preloaders,          \* the hidden <Image> elements mounted, lines 66-77
    imageFiles,          \* the urls under /listing-images that exist
    detail               \* the detail page rendered: its listing and nearby list

uiVars == <<selectedCategories, userPos, radiusKm, geoError,
            searchText, appliedQuery, filtered, searchFiltered>>

mapVars == <<token, mounted, mapRef, mapLoaded, listingsSource, loadGeojson,
             effectPending, maps>>

geoVars == <<geoSupported, geoReq>>

scriptVars == <<script, apiKey, pc, input, idx, out, side, requests, errors,
                written, exit, nav>>

widgetVars == <<popups, hav, candidates, images, index, preloaders, imageFiles, detail>>

vars == <<listings, uiVars, mapVars, geoVars, scriptVars, popup, widgetVars>>

-----------------------------------------------------------------------------
(* Bounds and input sets *)

MaxListings == 3

\* The most calls of getCurrentPosition in one behaviour.
MaxRequests == 2

Null == <<>>

\* No call of haversineKm is recorded, no carousel and no detail page is open.
WidgetsIdle ==
    /\ popups = <<>>
    /\ hav = Null
    /\ candidates = <<>>
    /\ images = <<>>
    /\ index = 0
    /\ preloaders = {}
    /\ imageFiles = {}
    /\ detail = Null

\* No offline script and no page request takes part.
ScriptsIdle ==
    /\ script = "none"
    /\ apiKey = FALSE
    /\ pc = "done"
    /\ input = <<>>
    /\ idx = 0
    /\ out = <<>>
    /\ side = <<>>
    /\ requests = 0
    /\ errors = {}
    /\ written = <<>>
    /\ exit = Null
    /\ nav = Null

Categories == {"cafe", "hotel", "mall", "park", "groomer", "vet", "supplies"}

\* The categories the model toggles; the other four stay as they start.
ToggleCats == {"cafe", "vet", "park"}

\* Selections that contain all or none of the categories never toggled.
CategorySelections ==
    {S : S \in SUBSET ToggleCats} \cup
    {(Categories \ ToggleCats) \cup S : S \in SUBSET ToggleCats}

\* Reference points in grid units.
Positions == {[lat |-> 0, lng |-> 0], [lat |-> 3, lng |-> 4]}

\* Values of the radius slider (min 1, default 5, max 20).
RadiusValues == {1, 5, 20}

P1 == [id |-> "p1", category |-> "cafe",  lat |-> 0, lng |-> 0,
       name |-> <<"A", "b">>,      address |-> <<"b", " ", "a">>]
P2 == [id |-> "p2", category |-> "vet",   lat |-> 0, lng |-> 1,
       name |-> <<"B">>,           address |-> <<"a", "A">>]
P3 == [id |-> "p3", category |-> "park",  lat |-> 1, lng |-> 0,
       name |-> <<"a", " ", "B">>, address |-> <<>>]
P4 == [id |-> "p4", category |-> "hotel", lat |-> 3, lng |-> 4,
       name |-> <<"b", "a">>,      address |-> <<"A", " ", "B">>]

ListingPool == {P1, P2, P3, P4}

\* The loaded collections: ids are unique within a collection.
Collections ==
    UNION { { s \in [1..n -> ListingPool] :
                \A i, j \in 1..n : i # j => s[i].id # s[j].id } :
            n \in 0..MaxListings }

\* Search texts: empty, blank, padded, mixed case, inner blank, no match.
SearchTexts ==
    { <<>>, <<" ", " ">>, <<" ", "A">>, <<"b", " ">>,
      <<"a", " ", "B">>, <<"z", "z">> }

-----------------------------------------------------------------------------
(* String helpers: String.prototype.toLowerCase, trim, includes *)

LowerChar(c) ==
    CASE c = "A" -> "a"
      [] c = "B" -> "b"
      [] c = "Z" -> "z"
      [] OTHER   -> c

toLowerCase(s) == [i \in DOMAIN s |-> LowerChar(s[i])]

IsSpace(c) == c = " "

RECURSIVE trimStart(_)
trimStart(s) ==
    IF s # <<>> /\ IsSpace(Head(s)) THEN trimStart(Tail(s)) ELSE s

RECURSIVE trimEnd(_)
trimEnd(s) ==
    IF s # <<>> /\ IsSpace(s[Len(s)])
    THEN trimEnd(SubSeq(s, 1, Len(s) - 1))
    ELSE s

trim(s) == trimEnd(trimStart(s))

includes(s, q) ==
    \E i \in 0..(Len(s) - Len(q)) : SubSeq(s, i + 1, i + Len(q)) = q

-----------------------------------------------------------------------------
(* haversineKm, lines 503-512 *)

\* Metres per grid unit squared: (6371000 * pi / 180 * 0.01)^2 = 1111.95^2.
MetresPerUnitSq == 1236432

\* Largest r with r * r <= n, digit by digit from the step downwards.
RECURSIVE ISqrtStep(_, _, _)
ISqrtStep(n, r, step) ==
    IF step = 0 THEN r
    ELSE IF (r + step) * (r + step) <= n THEN ISqrtStep(n, r + step, step)
    ELSE ISqrtStep(n, r, step \div 10)

ISqrt(n) == ISqrtStep(n, 0, 10000)

\* Small-angle form of the haversine formula at the equator:
\* x = (dLat/2)^2 + (dLng/2)^2 and 2 R asin(sqrt(x)) = R sqrt(dLat^2 + dLng^2).
haversineKm(a, b) ==
    LET dLat == b.lat - a.lat
        dLng == b.lng - a.lng
    IN  ISqrt((dLat * dLat + dLng * dLng) * MetresPerUnitSq)

-----------------------------------------------------------------------------
(* The filter/rank pipeline, lines 581-601 *)

\* a ?? b
Coalesce(d, dflt) == IF d = Null THEN dflt ELSE d[1]

\* Variant: an empty selection is read as "no category filter".
InCategoriesOrNone(l, cats) == cats = {} \/ l.category \in cats

\* Variant: one category key is never matched.
InCategoriesExceptHotel(l, cats) == l.category \in cats \ {"hotel"}

\* selectedCategories.has(l.category), line 582
InCategories(l, cats) == l.category \in cats

\* Variant: a missing distance is stored as 0.
WithDistanceZero(l, d) ==
    [f \in DOMAIN l \cup {"distanceKm"} |->
        IF f = "distanceKm" THEN (IF d = Null THEN <<0>> ELSE d) ELSE l[f]]

\* { ...l, distanceKm: d }
WithDistance(l, d) ==
    [f \in DOMAIN l \cup {"distanceKm"} |->
        IF f = "distanceKm" THEN d ELSE l[f]]

\* Variant: ties go in front (an unstable insertion).
RECURSIVE InsertBeforeTies(_, _)
InsertBeforeTies(sorted, x) ==
    IF sorted = <<>> THEN <<x>>
    ELSE IF Coalesce(Head(sorted).distanceKm, 0) - Coalesce(x.distanceKm, 0) >= 0
         THEN <<x>> \o sorted
         ELSE <<Head(sorted)>> \o InsertBeforeTies(Tail(sorted), x)

\* Array.prototype.sort with the comparator a.distanceKm - b.distanceKm:
\* a stable sort, so x goes behind every element that does not compare
\* greater than it.
RECURSIVE InsertByDistance(_, _)
InsertByDistance(sorted, x) ==
    IF sorted = <<>> THEN <<x>>
    ELSE IF Coalesce(Head(sorted).distanceKm, 0) - Coalesce(x.distanceKm, 0) > 0
         THEN <<x>> \o sorted
         ELSE <<Head(sorted)>> \o InsertByDistance(Tail(sorted), x)

RECURSIVE SortFrom(_, _)
SortFrom(done, rest) ==
    IF rest = <<>> THEN done
    ELSE SortFrom(InsertByDistance(done, Head(rest)), Tail(rest))

\* Variant: the sort is left out.
SortNone(s) == s

SortByDistance(s) == SortFrom(<<>>, s)

\* Variant: the cutoff is left out.
WithinRadiusNoCut(l, r) == TRUE

\* The radius cutoff of line 587; radiusKm is in km, distances in metres.
WithinRadius(l, r) == Coalesce(l.distanceKm, 0) <= r * 1000

\* The useMemo callback of lines 581-589.
FilteredOf(ls, cats, pos, r) ==
    LET base == SelectSeq(ls, LAMBDA l : InCategories(l, cats))
    IN  IF pos = Null
        THEN [i \in DOMAIN base |-> WithDistance(base[i], Null)]
        ELSE LET annotated ==
                    [i \in DOMAIN base |->
                        WithDistance(base[i],
                            <<haversineKm(pos, [lat |-> base[i].lat,
                                                lng |-> base[i].lng])>>)]
                 inside == SelectSeq(annotated, LAMBDA l : WithinRadius(l, r))
             IN  SortByDistance(inside)

\* Variant: the address is not searched.
MatchesNameOnly(l, q) == includes(toLowerCase(l.name), q)

\* The predicate of lines 596-600.
Matches(l, q) ==
    includes(toLowerCase(l.name), q) \/ includes(toLowerCase(l.address), q)

\* Variant: the search runs over the whole collection, not over filtered.
SearchWholeCollection(f, query) ==
    LET q == toLowerCase(trim(query))
        all == [i \in DOMAIN listings |-> WithDistance(listings[i], Null)]
    IN  IF q = <<>> THEN f
        ELSE SelectSeq(all, LAMBDA l : Matches(l, q))

\* The useMemo callback of lines 592-601.
SearchFilteredOf(f, query) ==
    LET q == toLowerCase(trim(query))
    IN  IF q = <<>> THEN f
        ELSE SelectSeq(f, LAMBDA l : Matches(l, q))

\* One render: the state after the setters, and the two memo values.
Render(cats, pos, r, query) ==
    /\ selectedCategories' = cats
    /\ userPos' = pos
    /\ radiusKm' = r
    /\ appliedQuery' = query
    /\ filtered' = FilteredOf(listings, cats, pos, r)
    /\ searchFiltered' = SearchFilteredOf(FilteredOf(listings, cats, pos, r), query)

-----------------------------------------------------------------------------
(* PipeSpec: the pipeline over every combination of its inputs *)

PipeInit ==
    /\ listings \in Collections
    /\ selectedCategories \in CategorySelections
    /\ userPos \in {Null} \cup Positions
    /\ radiusKm \in RadiusValues
    /\ appliedQuery \in SearchTexts
    /\ searchText = <<>>
    /\ geoError = Null
    /\ filtered = FilteredOf(listings, selectedCategories, userPos, radiusKm)
    /\ searchFiltered = SearchFilteredOf(filtered, appliedQuery)
    \* the map and the location requests play no part here and stay put
    /\ token = TRUE
    /\ mounted = TRUE
    /\ mapRef = "null"
    /\ mapLoaded = FALSE
    /\ listingsSource = Null
    /\ loadGeojson = <<>>
    /\ effectPending = FALSE
    /\ geoSupported = TRUE
    /\ geoReq = <<>>
    /\ maps = <<>>
    /\ ScriptsIdle
    /\ popup = Null
    /\ WidgetsIdle

PipeToggleCategory(cat) ==
    /\ Render(IF cat \in selectedCategories
              THEN selectedCategories \ {cat}
              ELSE selectedCategories \cup {cat},
              userPos, radiusKm, appliedQuery)
    /\ UNCHANGED <<listings, geoError, searchText, mapVars, geoVars, scriptVars, popup, widgetVars>>

PipeSetRadius(r) ==
    /\ r # radiusKm
    /\ Render(selectedCategories, userPos, r, appliedQuery)
    /\ UNCHANGED <<listings, geoError, searchText, mapVars, geoVars, scriptVars, popup, widgetVars>>

PipeSetReference(pos) ==
    /\ pos # userPos
    /\ Render(selectedCategories, pos, radiusKm, appliedQuery)
    /\ UNCHANGED <<listings, geoError, searchText, mapVars, geoVars, scriptVars, popup, widgetVars>>

PipeSetQuery(query) ==
    /\ query # appliedQuery
    /\ Render(selectedCategories, userPos, radiusKm, query)
    /\ UNCHANGED <<listings, geoError, searchText, mapVars, geoVars, scriptVars, popup, widgetVars>>

PipeNext ==
    \/ \E cat \in ToggleCats : PipeToggleCategory(cat)
    \/ \E r \in RadiusValues : PipeSetRadius(r)
    \/ \E pos \in Positions : PipeSetReference(pos)
    \/ \E query \in SearchTexts : PipeSetQuery(query)

PipeSpec == PipeInit /\ [][PipeNext]_vars

-----------------------------------------------------------------------------
(* Spec: the mounted component with its map and its location requests *)

\* listingsData of line 501, here a collection that is not in distance order.
SAMPLE_LISTINGS == <<P3, P4, P1, P2>>

\* The category buttons the model presses.
UiToggleCats == {"cafe", "hotel"}

\* The texts the model types into the search box.
UiSearchTexts == { <<>>, <<" ", "a", " ", "B">> }

\* err.message of a failed request: empty, or the browser's text.
GeoMessages == {"", "User denied Geolocation"}

\* The feature collection of lines 604-626, without the display-only fields.
GeojsonOf(sf) ==
    [i \in DOMAIN sf |->
        [id |-> sf[i].id,
         coordinates |-> <<sf[i].lng, sf[i].lat>>,
         category |-> sf[i].category,
         name |-> sf[i].name,
         address |-> sf[i].address]]

geojson == GeojsonOf(searchFiltered)

\* The state after the first render and the mount effects, lines 561-570
\* and 674-712: with a token the map exists and has not loaded yet.
Init ==
    /\ listings = SAMPLE_LISTINGS
    /\ selectedCategories = Categories
    /\ userPos = Null
    /\ radiusKm = 5
    /\ geoError = Null
    /\ searchText = <<>>
    /\ appliedQuery = <<>>
    /\ filtered = FilteredOf(listings, selectedCategories, userPos, radiusKm)
    /\ searchFiltered = SearchFilteredOf(filtered, appliedQuery)
    /\ token \in BOOLEAN
    /\ mounted = TRUE
    /\ mapRef = IF token THEN "map" ELSE "null"
    /\ mapLoaded = FALSE
    /\ listingsSource = Null
    /\ loadGeojson = IF token THEN GeojsonOf(searchFiltered) ELSE <<>>
    /\ effectPending = FALSE
    /\ geoSupported \in BOOLEAN
    /\ geoReq = <<>>
    /\ maps = IF token THEN <<"live">> ELSE <<>>
    /\ ScriptsIdle
    /\ popup = Null
    /\ WidgetsIdle

\* The controls are on the page: lines 888-897 return before them otherwise.
ControlsShown == mounted /\ token

\* An init-map effect without its dependency list: each render cleans the
\* old map up and makes a new one.
MapsAfterRenderNoDeps ==
    IF token THEN [i \in DOMAIN maps |-> "removed"] \o <<"live">> ELSE maps

\* The map instances after a re-render: the effect of lines 674-832 has the
\* dependencies [token], token never changes, so it does not run again.
MapsAfterRender == maps

\* toggleCategory, lines 866-872, with the render it causes.
toggleCategory(cat) ==
    /\ ControlsShown
    /\ Render(IF cat \in selectedCategories
              THEN selectedCategories \ {cat}
              ELSE selectedCategories \cup {cat},
              userPos, radiusKm, appliedQuery)
    /\ effectPending' = TRUE
    /\ maps' = MapsAfterRender
    /\ UNCHANGED <<listings, geoError, searchText, geoVars,
                   token, mounted, mapRef, mapLoaded, listingsSource, loadGeojson,
                   scriptVars, popup, widgetVars>>

\* The radius slider, lines 947-955: disabled until userPos is set.
setRadiusKm(r) ==
    /\ ControlsShown
    /\ userPos # Null
    /\ r # radiusKm
    /\ Render(selectedCategories, userPos, r, appliedQuery)
    /\ effectPending' = TRUE
    /\ maps' = MapsAfterRender
    /\ UNCHANGED <<listings, geoError, searchText, geoVars,
                   token, mounted, mapRef, mapLoaded, listingsSource, loadGeojson,
                   scriptVars, popup, widgetVars>>

\* Variant: the results follow the text as it is typed.
setSearchTextLive(text) ==
    /\ ControlsShown
    /\ text # searchText
    /\ searchText' = text
    /\ Render(selectedCategories, userPos, radiusKm, trim(text))
    /\ effectPending' = TRUE
    /\ maps' = MapsAfterRender
    /\ UNCHANGED <<listings, geoError, geoVars,
                   token, mounted, mapRef, mapLoaded, listingsSource, loadGeojson,
                   scriptVars, popup, widgetVars>>

\* Typing in the search box, line 966.
setSearchText(text) ==
    /\ ControlsShown
    /\ text # searchText
    /\ searchText' = text
    /\ maps' = MapsAfterRender
    /\ UNCHANGED <<listings, selectedCategories, userPos, radiusKm, geoError,
                   appliedQuery, filtered, searchFiltered, geoVars,
                   token, mounted, mapRef, mapLoaded, listingsSource, loadGeojson,
                   effectPending, scriptVars, popup, widgetVars>>

\* applySearch, lines 572-574; an unchanged query causes no render.
applySearch ==
    /\ ControlsShown
    /\ trim(searchText) # appliedQuery
    /\ Render(selectedCategories, userPos, radiusKm, trim(searchText))
    /\ effectPending' = TRUE
    /\ maps' = MapsAfterRender
    /\ UNCHANGED <<listings, geoError, searchText, geoVars,
                   token, mounted, mapRef, mapLoaded, listingsSource, loadGeojson,
                   scriptVars, popup, widgetVars>>

\* clearSearch, lines 576-579.
clearSearch ==
    /\ ControlsShown
    /\ searchText # <<>> \/ appliedQuery # <<>>
    /\ searchText' = <<>>
    /\ Render(selectedCategories, userPos, radiusKm, <<>>)
    /\ effectPending' = (effectPending \/ appliedQuery # <<>>)
    /\ maps' = MapsAfterRender
    /\ UNCHANGED <<listings, geoError, geoVars,
                   token, mounted, mapRef, mapLoaded, listingsSource, loadGeojson,
                   scriptVars, popup, widgetVars>>

\* useMyLocation, lines 874-886.
useMyLocation ==
    /\ ControlsShown
    /\ IF ~geoSupported
       THEN /\ geoError' = <<"Your browser doesn't support location.">>
            /\ UNCHANGED geoReq
       ELSE /\ Len(geoReq) < MaxRequests
            /\ geoError' = Null
            /\ geoReq' = Append(geoReq, [state |-> "pending", pos |-> Null])
    /\ maps' = MapsAfterRender
    /\ UNCHANGED <<listings, selectedCategories, userPos, radiusKm, searchText,
                   appliedQuery, filtered, searchFiltered, geoSupported,
                   token, mounted, mapRef, mapLoaded, listingsSource, loadGeojson,
                   effectPending, scriptVars, popup, widgetVars>>

\* The success callback of line 882.  It runs whether or not the component
\* is still mounted; a render follows only while it is mounted.
GeoSuccess(i, pos) ==
    /\ i \in DOMAIN geoReq
    /\ geoReq[i].state = "pending"
    /\ geoReq' = [geoReq EXCEPT ![i] = [state |-> "ok", pos |-> pos]]
    /\ IF mounted
       THEN /\ Render(selectedCategories, pos, radiusKm, appliedQuery)
            /\ effectPending' = TRUE
            /\ maps' = MapsAfterRender
       ELSE /\ userPos' = pos
            /\ UNCHANGED <<selectedCategories, radiusKm, appliedQuery,
                           filtered, searchFiltered, effectPending, maps>>
    /\ UNCHANGED <<listings, geoError, searchText, geoSupported,
                   token, mounted, mapRef, mapLoaded, listingsSource, loadGeojson,
                   scriptVars, popup, widgetVars>>

\* A failure callback that also forgets the reference point.
GeoFailureClearsPos(i, message) ==
    /\ i \in DOMAIN geoReq
    /\ geoReq[i].state = "pending"
    /\ geoReq' = [geoReq EXCEPT ![i] = [state |-> "error", pos |-> Null]]
    /\ geoError' = <<IF message = "" THEN "Could not get location." ELSE message>>
    /\ IF mounted
       THEN /\ Render(selectedCategories, Null, radiusKm, appliedQuery)
            /\ effectPending' = TRUE
       ELSE /\ userPos' = Null
            /\ UNCHANGED <<selectedCategories, radiusKm, appliedQuery,
                           filtered, searchFiltered, effectPending>>
    /\ UNCHANGED <<listings, searchText, geoSupported,
                   token, mounted, mapRef, mapLoaded, listingsSource, loadGeojson,
                   maps, scriptVars, popup, widgetVars>>

\* The error callback of line 883.
GeoFailure(i, message) ==
    /\ i \in DOMAIN geoReq
    /\ geoReq[i].state = "pending"
    /\ geoReq' = [geoReq EXCEPT ![i] = [state |-> "error", pos |-> Null]]
    /\ geoError' = <<IF message = "" THEN "Could not get location." ELSE message>>
    /\ maps' = IF mounted THEN MapsAfterRender ELSE maps
    /\ UNCHANGED <<listings, selectedCategories, userPos, radiusKm, searchText,
                   appliedQuery, filtered, searchFiltered, geoSupported,
                   token, mounted, mapRef, mapLoaded, listingsSource, loadGeojson,
                   effectPending, scriptVars, popup, widgetVars>>

\* Variant: closePopup forgets the reference and leaves the popup on the map.
closePopupKeepsOpen == popups

\* closePopup, lines 628-633: the popup instances after it (popupRef.current
\* is null after it): the referenced popup, if any, is removed from the map.
closePopup ==
    [k \in DOMAIN popups |->
        IF popup # Null /\ k = popup[1] THEN [popups[k] EXCEPT !.open = FALSE]
        ELSE popups[k]]

\* The load handler of lines 705-712: the source is added with the geojson
\* of the render whose effect created the map.
MapLoad ==
    /\ mounted
    /\ mapRef = "map"
    /\ ~mapLoaded
    /\ mapLoaded' = TRUE
    /\ listingsSource' = <<loadGeojson>>
    /\ UNCHANGED <<listings, uiVars, geoVars,
                   token, mounted, mapRef, loadGeojson, effectPending, maps,
                   scriptVars, popup, widgetVars>>

\* The effect of lines 835-841.
UpdateGeojsonEffect ==
    /\ mounted
    /\ effectPending
    /\ effectPending' = FALSE
    /\ IF mapRef # "null" /\ listingsSource # Null
       THEN listingsSource' = <<geojson>>
       ELSE UNCHANGED listingsSource
    /\ UNCHANGED <<listings, uiVars, geoVars,
                   token, mounted, mapRef, mapLoaded, loadGeojson, maps,
                   scriptVars, popup, widgetVars>>

\* Unmount: the cleanup of lines 827-831 when the effect had created a map
\* (map.remove(), mapRef.current = null); without a token the effect returned
\* at line 675 and registered no cleanup.
Unmount ==
    /\ mounted
    /\ mounted' = FALSE
    /\ mapRef' = "null"
    /\ listingsSource' = Null
    /\ effectPending' = FALSE
    /\ maps' = [i \in DOMAIN maps |-> "removed"]
    /\ popups' = IF token THEN closePopup ELSE popups
    /\ popup' = IF token THEN Null ELSE popup
    /\ UNCHANGED <<listings, uiVars, geoVars, token, mapLoaded, loadGeojson,
                   scriptVars, hav, candidates, images, index, preloaders,
                   imageFiles, detail>>

Next ==
    \/ \E cat \in UiToggleCats : toggleCategory(cat)
    \/ \E r \in RadiusValues : setRadiusKm(r)
    \/ \E text \in UiSearchTexts : setSearchText(text)
    \/ applySearch
    \/ clearSearch
    \/ useMyLocation
    \/ \E i \in 1..MaxRequests, pos \in Positions : GeoSuccess(i, pos)
    \/ \E i \in 1..MaxRequests, message \in GeoMessages : GeoFailure(i, message)
    \/ MapLoad
    \/ UpdateGeojsonEffect
    \/ Unmount

Spec == Init /\ [][Next]_vars

-----------------------------------------------------------------------------
(* Properties of the pipeline, checked under PipeSpec *)

Ids(s) == [i \in DOMAIN s |-> s[i].id]

\* Where the listing with this id stands in the loaded collection.
IndexInListings(id) == CHOOSE k \in DOMAIN listings : listings[k].id = id

RECURSIVE IsSubsequence(_, _)
IsSubsequence(a, b) ==
    IF a = <<>> THEN TRUE
    ELSE IF b = <<>> THEN FALSE
    ELSE IF Head(a) = Head(b) THEN IsSubsequence(Tail(a), Tail(b))
    ELSE IsSubsequence(a, Tail(b))

\* The listings of the collection whose category is selected, in order.
CategoryMatches == SelectSeq(listings, LAMBDA l : l.category \in selectedCategories)

\* The applied query as the search step reads it.
NormalQuery == toLowerCase(trim(appliedQuery))

NonDecreasing(s) ==
    \A i, j \in DOMAIN s : i < j => s[i].distanceKm[1] <= s[j].distanceKm[1]

\* C2: with a reference point set, every entry of the result (before and
\* after the search step) has a distance, and it is at most radiusKm.
C2_WithinRadius ==
    userPos # Null =>
        /\ \A i \in DOMAIN filtered :
              /\ filtered[i].distanceKm # Null
              /\ filtered[i].distanceKm[1] <= radiusKm * 1000
        /\ \A i \in DOMAIN searchFiltered :
              /\ searchFiltered[i].distanceKm # Null
              /\ searchFiltered[i].distanceKm[1] <= radiusKm * 1000

\* A reference point is set, the result is not empty, and the cutoff has
\* dropped a listing of a selected category.
C2_Witness ==
    /\ userPos # Null
    /\ searchFiltered # <<>>
    /\ Len(filtered) < Len(CategoryMatches)

\* C3: with a reference point set, the result is ordered by non-decreasing
\* distance, before and after the search step.
C3_SortedByDistance ==
    userPos # Null => NonDecreasing(filtered) /\ NonDecreasing(searchFiltered)

\* Two entries of the result stand in the opposite order in the collection.
C3_Witness ==
    /\ userPos # Null
    /\ \E i, j \in DOMAIN searchFiltered :
          /\ i < j
          /\ searchFiltered[i].distanceKm[1] < searchFiltered[j].distanceKm[1]
          /\ IndexInListings(searchFiltered[i].id) > IndexInListings(searchFiltered[j].id)

\* C4: with a reference point set, entries at the same distance keep the
\* order they have in the collection.
C4_StableTies ==
    userPos # Null =>
        /\ \A i, j \in DOMAIN filtered :
              (i < j /\ filtered[i].distanceKm = filtered[j].distanceKm)
                  => IndexInListings(filtered[i].id) < IndexInListings(filtered[j].id)
        /\ \A i, j \in DOMAIN searchFiltered :
              (i < j /\ searchFiltered[i].distanceKm = searchFiltered[j].distanceKm)
                  => IndexInListings(searchFiltered[i].id)
                         < IndexInListings(searchFiltered[j].id)

\* A tie in a result that the sort has reordered.
C4_Witness ==
    /\ userPos # Null
    /\ \E i, j \in DOMAIN filtered :
          i < j /\ filtered[i].distanceKm = filtered[j].distanceKm
    /\ Ids(filtered) # Ids(CategoryMatches)
    /\ Len(filtered) = Len(CategoryMatches)

\* C5: the search step only removes entries: its result is a subsequence
\* of the category/radius-filtered sequence.
C5_SearchIsSubsequence == IsSubsequence(searchFiltered, filtered)

\* A query that keeps some entries and removes others.
C5_Witness ==
    /\ NormalQuery # <<>>
    /\ searchFiltered # <<>>
    /\ Len(searchFiltered) < Len(filtered)
    /\ userPos # Null

\* C6: with a query that is not empty after trimming, an entry of filtered
\* is in the result exactly if the lower-cased trimmed query is part of its
\* lower-cased name or address; a blank query removes nothing.
C6_SearchMatch ==
    IF NormalQuery = <<>>
    THEN searchFiltered = filtered
    ELSE \A i \in DOMAIN filtered :
            (\E j \in DOMAIN searchFiltered : searchFiltered[j] = filtered[i])
            <=> \/ includes(toLowerCase(filtered[i].name), NormalQuery)
                \/ includes(toLowerCase(filtered[i].address), NormalQuery)

\* The query differs from its normal form, one entry is kept for its address
\* alone and another entry is removed.
C6_Witness ==
    /\ NormalQuery # <<>>
    /\ appliedQuery # NormalQuery
    /\ Len(searchFiltered) < Len(filtered)
    /\ \E j \in DOMAIN searchFiltered :
          ~includes(toLowerCase(searchFiltered[j].name), NormalQuery)

\* A blank, non-empty query over a non-empty result.
C6_WitnessBlank ==
    /\ appliedQuery # <<>>
    /\ NormalQuery = <<>>
    /\ filtered # <<>>

\* C7: with no category selected the result is empty, whatever the other
\* inputs are.
C7_EmptySelection ==
    selectedCategories = {} => filtered = <<>> /\ searchFiltered = <<>>

\* No category selected, over a non-empty collection, with a reference point.
C7_Witness ==
    /\ selectedCategories = {}
    /\ Len(listings) >= 2
    /\ userPos # Null
    /\ NormalQuery # <<>>

\* C8: with all seven categories, no reference point and no query, the
\* result is the whole collection, each listing once, in collection order.
C8_FullSelection ==
    (selectedCategories = Categories /\ userPos = Null /\ appliedQuery = <<>>)
        => Ids(searchFiltered) = Ids(listings)

\* All seven categories over a collection of several categories.
C8_Witness ==
    /\ selectedCategories = Categories
    /\ Cardinality(selectedCategories) = 7
    /\ userPos = Null
    /\ appliedQuery = <<>>
    /\ Len(listings) >= 3
    /\ \E i \in DOMAIN listings : listings[i].category = "hotel"

\* C9, state part: without a reference point no entry has a distance and
\* filtered is the category-filtered collection in its order.
C9_NoReferenceState ==
    userPos = Null =>
        /\ \A i \in DOMAIN filtered : filtered[i].distanceKm = Null
        /\ \A i \in DOMAIN searchFiltered : searchFiltered[i].distanceKm = Null
        /\ Ids(filtered) = Ids(CategoryMatches)

\* C9, step part: without a reference point a step that changes radiusKm
\* leaves the result as it was.
C9_RadiusStep ==
    (userPos = Null /\ userPos' = Null /\ radiusKm' # radiusKm)
        => filtered' = filtered /\ searchFiltered' = searchFiltered

\* C9: while no reference point is set, all distances are null, the result
\* is the category-filtered collection in original order, and changing
\* radiusKm does not change it.
C9_NoReference == [](C9_NoReferenceState) /\ [][C9_RadiusStep]_vars

\* No reference point, a radius other than the initial one, and a category
\* filter that has removed a listing.
C9_Witness ==
    /\ userPos = Null
    /\ radiusKm = 1
    /\ filtered # <<>>
    /\ Len(filtered) < Len(listings)

-----------------------------------------------------------------------------
(* Properties of the mounted component, checked under Spec *)

\* C1: once the map has loaded and no effect is pending, the "listings"
\* source holds one feature per entry of the results list, same ids, same
\* order.
C1_SourceMatchesResults ==
    (mounted /\ mapLoaded /\ ~effectPending)
        => /\ listingsSource # Null
           /\ Ids(listingsSource[1]) = Ids(searchFiltered)

-----------------------------------------------------------------------------
(* Properties of the location requests, checked under Spec *)

\* A step in which a location request fails: the error callback of a pending
\* request runs, or useMyLocation finds no navigator.geolocation.
GeoFailureStep ==
    \/ \E i \in DOMAIN geoReq :
          /\ geoReq[i].state = "pending"
          /\ i \in DOMAIN geoReq'
          /\ geoReq'[i].state = "error"
    \/ ~geoSupported /\ geoError' # geoError

\* C11: a failed location request (unsupported browser, denied, timed out)
\* sets the error text and leaves userPos, selectedCategories, radiusKm, the
\* applied query and with them the results sequence as they were.
C11_FailureOnlySetsError ==
    [][GeoFailureStep =>
          /\ geoError' # Null
          /\ UNCHANGED <<userPos, selectedCategories, radiusKm, appliedQuery,
                         filtered, searchFiltered>>]_vars

\* A request has failed on a mounted page that already had a reference point
\* from an earlier request.
C11_Witness ==
    /\ mounted
    /\ userPos # Null
    /\ geoError # Null
    /\ \E i \in DOMAIN geoReq : geoReq[i].state = "error"

-----------------------------------------------------------------------------
(* Properties of the map instance, checked under Spec *)

\* C12: without a token no map is made and the message stands in its place,
\* while the category buttons, the search box and the results list are still
\* on the page and work.
C12_NoTokenUiUsable ==
    (mounted /\ ~token) =>
        /\ maps = <<>>
        /\ mapRef = "null"
        /\ ControlsShown
        /\ \E cat \in UiToggleCats : ENABLED toggleCategory(cat)

LiveMaps == {i \in DOMAIN maps : maps[i] = "live"}

\* C13: within one mount there is never more than one live map, a map is
\* made once and no render makes another, and after the unmount every map
\* has been removed and mapRef is null.
C13_OneMapPerMount ==
    /\ Len(maps) <= 1
    /\ Cardinality(LiveMaps) <= 1
    /\ (mounted /\ token) => (maps = <<"live">> /\ mapRef = "map")
    /\ ~mounted => (LiveMaps = {} /\ mapRef = "null")

\* The page was unmounted after its one map had lived through a category
\* change, a new reference point and a search.
C13_Witness ==
    /\ ~mounted
    /\ maps = <<"removed">>
    /\ selectedCategories # Categories
    /\ userPos # Null
    /\ appliedQuery # <<>>

-----------------------------------------------------------------------------
(* SlugSpec: src/scripts/addSlugs.mjs over data/listings.json, and then the
   two listing routes that read the file it wrote *)

\* The most records in data/listings.json.
MaxData == 3

pageVars == <<listings, uiVars, mapVars, geoVars, popup, widgetVars>>

\* The directory page is not open.
DirectoryIdle ==
    /\ listings = <<>>
    /\ selectedCategories = {}
    /\ userPos = Null
    /\ radiusKm = 5
    /\ geoError = Null
    /\ searchText = <<>>
    /\ appliedQuery = <<>>
    /\ filtered = <<>>
    /\ searchFiltered = <<>>
    /\ token = FALSE
    /\ mounted = FALSE
    /\ mapRef = "null"
    /\ mapLoaded = FALSE
    /\ listingsSource = Null
    /\ loadGeojson = <<>>
    /\ effectPending = FALSE
    /\ geoSupported = FALSE
    /\ geoReq = <<>>
    /\ maps = <<>>

\* The page takes no part while a script runs.
PageIdle ==
    /\ popup = Null
    /\ WidgetsIdle
    /\ DirectoryIdle

LowerAlnum ==
    {"a", "b", "c", "d", "e", "f", "g", "h", "i", "j", "k", "l", "m", "n",
     "o", "p", "q", "r", "s", "t", "u", "v", "w", "x", "y", "z",
     "0", "1", "2", "3", "4", "5", "6", "7", "8", "9"}

DigitChars == <<"0", "1", "2", "3", "4", "5", "6", "7", "8", "9">>

\* The decimal text of a number, as a template literal writes it.
RECURSIVE NumberChars(_)
NumberChars(n) ==
    IF n < 10 THEN <<DigitChars[n + 1]>>
    ELSE NumberChars(n \div 10) \o <<DigitChars[(n % 10) + 1]>>

\* .replace(/&/g, " and "), line 7.
RECURSIVE ReplaceAmp(_)
ReplaceAmp(s) ==
    IF s = <<>> THEN <<>>
    ELSE IF Head(s) = "&"
         THEN <<" ", "a", "n", "d", " ">> \o ReplaceAmp(Tail(s))
         ELSE <<Head(s)>> \o ReplaceAmp(Tail(s))

\* .replace(/[^a-z0-9]+/g, "-"), line 8: one dash for each run.
RECURSIVE DashRuns(_, _)
DashRuns(s, inRun) ==
    IF s = <<>> THEN <<>>
    ELSE IF Head(s) \in LowerAlnum
         THEN <<Head(s)>> \o DashRuns(Tail(s), FALSE)
         ELSE (IF inRun THEN <<>> ELSE <<"-">>) \o DashRuns(Tail(s), TRUE)

\* .replace(/^-+|-+$/g, ""), line 9.
RECURSIVE StripDashes(_)
StripDashes(s) ==
    IF s # <<>> /\ Head(s) = "-" THEN StripDashes(Tail(s))
    ELSE IF s # <<>> /\ s[Len(s)] = "-"
         THEN StripDashes(SubSeq(s, 1, Len(s) - 1))
         ELSE s

\* slugify, lines 3-10.
slugify(str) == StripDashes(DashRuns(ReplaceAmp(trim(toLowerCase(str))), FALSE))

\* Names: plain, the same base in another case, one that ends in a number,
\* one with an ampersand, the empty name, one with no letter or digit.
NamePool ==
    { <<"a">>, <<"A", "!">>, <<"a", "-", "2">>, <<"b", "&", "a">>, <<>>,
      <<"!">> }

\* The files the script can read: up to MaxData records with the ids "1",
\* "2", ... and any names of the pool.
DataFiles ==
    UNION { { [i \in 1..n |-> [id |-> ToString(i), name |-> names[i]]] :
                names \in [1..n -> NamePool] } :
            n \in 0..MaxData }

LISTINGS_JSON == "data/listings.json"

\* The callback of data.map for the next item, lines 17-25.
SlugItem ==
    /\ script = "addSlugs"
    /\ pc = "loop"
    /\ idx < Len(input)
    /\ LET item  == input[idx + 1]
           base  == slugify(IF item.name = <<>>
                            THEN <<"p", "l", "a", "c", "e">>
                            ELSE item.name)
           count == IF base \in DOMAIN side THEN side[base] ELSE 0
           slug  == IF count = 0 THEN base
                    ELSE base \o <<"-">> \o NumberChars(count + 1)
       IN /\ side' = [b \in DOMAIN side \cup {base} |->
                        IF b = base THEN count + 1 ELSE side[b]]
          /\ out' = Append(out, [id |-> item.id, name |-> item.name,
                                 slug |-> slug])
    /\ idx' = idx + 1
    /\ UNCHANGED <<pageVars, script, apiKey, pc, input, requests, errors, written,
                   exit, nav>>

\* fs.writeFileSync, line 27, and the end of the script.
WriteSlugs ==
    /\ script = "addSlugs"
    /\ pc = "loop"
    /\ idx = Len(input)
    /\ written' = [written EXCEPT ![LISTINGS_JSON] = out]
    /\ exit' = <<0>>
    /\ pc' = "done"
    /\ UNCHANGED <<pageVars, script, apiKey, input, idx, out, side, requests,
                   errors, nav>>

\* getAllListings of the routes: the file as the site build imports it.
getAllListings == written[LISTINGS_JSON]

\* getById, src/unnamed/part_003 lines 9-11: find gives the first element
\* that passes, or undefined.
getById(id) ==
    LET arr == getAllListings
    IN IF \E k \in DOMAIN arr : arr[k].id = id
       THEN arr[CHOOSE k \in DOMAIN arr :
                  arr[k].id = id /\ \A j \in 1..(k - 1) : arr[j].id # id]
       ELSE Null

\* getListingBySlug, src/unnamed/part_004 lines 56-58.
getListingBySlug(slug) ==
    LET arr == getAllListings
    IN IF \E k \in DOMAIN arr : arr[k].slug = slug
       THEN arr[CHOOSE k \in DOMAIN arr :
                  arr[k].slug = slug /\ \A j \in 1..(k - 1) : arr[j].slug # slug]
       ELSE Null

\* The ids a visitor asks for: those of the file and one that no listing has.
VisitIds == {ToString(i) : i \in 1..MaxData} \cup {"none"}

\* OldIdRedirectPage, src/unnamed/part_003 lines 13-17.
OldIdRedirectPage(id) ==
    /\ script = "addSlugs"
    /\ pc = "done"
    /\ nav' = IF getById(id) = Null
              THEN [from |-> id, kind |-> "notFound"]
              ELSE [from |-> id, kind |-> "redirect", slug |-> getById(id).slug]
    /\ UNCHANGED <<pageVars, script, apiKey, pc, input, idx, out, side, requests,
                   errors, written, exit>>

\* ListingPage, src/unnamed/part_004 lines 70-72, for the redirect's target.
ListingPage ==
    /\ script = "addSlugs"
    /\ nav # Null
    /\ nav.kind = "redirect"
    /\ nav' = IF getListingBySlug(nav.slug) = Null
              THEN [from |-> nav.from, kind |-> "notFound"]
              ELSE [from |-> nav.from, kind |-> "listing",
                    id |-> getListingBySlug(nav.slug).id]
    /\ UNCHANGED <<pageVars, script, apiKey, pc, input, idx, out, side, requests,
                   errors, written, exit>>

SlugInit ==
    /\ PageIdle
    /\ script = "addSlugs"
    /\ apiKey = FALSE
    /\ pc = "loop"
    /\ input \in DataFiles
    /\ idx = 0
    /\ out = <<>>
    /\ side = <<>>
    /\ requests = 0
    /\ errors = {}
    /\ written = [f \in {LISTINGS_JSON} |-> input]
    /\ exit = Null
    /\ nav = Null

SlugNext ==
    \/ SlugItem
    \/ WriteSlugs
    \/ \E id \in VisitIds : OldIdRedirectPage(id)
    \/ ListingPage

SlugSpec == SlugInit /\ [][SlugNext]_vars

\* C14: once addSlugs has written the file, no two of its records have the
\* same slug, whatever the names were.
C14_SlugsUnique ==
    (script = "addSlugs" /\ pc = "done") =>
        \A i, j \in DOMAIN getAllListings :
            i # j => getAllListings[i].slug # getAllListings[j].slug

\* C15: the legacy route of an id of the collection redirects, and the page
\* the redirect leads to is the listing with that id; an id that no listing
\* has is answered with not-found.
C15_RedirectResolves ==
    (script = "addSlugs" /\ nav # Null) =>
        /\ nav.kind = "listing" => nav.id = nav.from
        /\ nav.kind = "notFound" =>
              \A k \in DOMAIN getAllListings : getAllListings[k].id # nav.from

-----------------------------------------------------------------------------
(* BatchSpec: the four offline scripts that call an external API.
     "extract"  src/unnamed/part_008 lines 1-250      (place extractor)
     "reviews"  src/unnamed/part_007 lines 88-208     (review verification)
     "hours"    src/unnamed/part_009                  (hours enrichment)
     "parks"    src/scripts/verify_parks_serpapi.mjs  (park verification)
   One step is the body of the script's loop for one record, or for one page
   request of the extractor, with the API's answer chosen freely. *)

ApiScripts == {"extract", "reviews", "hours", "parks"}

\* { ...rec, [key]: val }
Put(rec, key, val) ==
    [k \in DOMAIN rec \cup {key} |-> IF k = key THEN val ELSE rec[k]]

\* Listings of the input file: one verified park, one unverified cafe, one
\* park that has no place id.
B1 == [id |-> "g1", name |-> "Park A", category |-> "park",
       verificationStatus |-> "verified", verifiedBy |-> "manual"]
B2 == [id |-> "g2", name |-> "Cafe B", category |-> "cafe",
       verificationStatus |-> "needs_check", verifiedBy |-> ""]
B3 == [id |-> "", name |-> "Park C", category |-> "park",
       verificationStatus |-> "needs_check", verifiedBy |-> ""]

BatchPool == {B1, B2, B3}

BatchInputs ==
    UNION { { s \in [1..n -> BatchPool] : \A i, j \in 1..n : i # j => s[i] # s[j] } :
            n \in 0..MaxData }

\* The file each script writes its JSON snapshot to.
OutputFile(sc) ==
    CASE sc = "extract" -> "data/listings_google.json"
      [] sc = "reviews" -> "data/listings_sg_reviews_verified.json"
      [] sc = "hours"   -> "data/listings_with_hours.json"
      [] sc = "parks"   -> "data/listings.parks_verified.json"

\* The CSV each script writes next to it (the hours script writes none).
CsvFile(sc) ==
    CASE sc = "extract" -> "data/listings_google.csv"
      [] sc = "reviews" -> "data/listings_sg_reviews_verified.csv"
      [] sc = "hours"   -> "data/listings_with_hours.json"
      [] sc = "parks"   -> "data/parks_verification_report.csv"

OutputFiles == {OutputFile(sc) : sc \in ApiScripts} \cup {CsvFile(sc) : sc \in ApiScripts}

\* e.message of a failed call.
ApiErrorMessage == "HTTP 500: "

\* A call of fetch that fails or answers with a status that is not ok.
ApiError == [ok |-> FALSE, message |-> ApiErrorMessage]

\* The test of the key variable, part_008 line 4, part_007 line 91, part_009
\* line 4, verify_parks_serpapi.mjs line 8: a script that went on without it.
HasApiKeyUnchecked == TRUE

HasApiKey == apiKey

\* The jobs of the extractor: (grid point, query) pairs, here two queries of
\* different categories at one point.
Jobs == <<[category |-> "cafe", q |-> "dog friendly cafe"],
          [category |-> "park", q |-> "dog park"]>>

\* parks of verify_parks_serpapi.mjs line 131, as positions in listings.
RECURSIVE ParksFrom(_, _)
ParksFrom(ls, k) ==
    IF k > Len(ls) THEN <<>>
    ELSE (IF ls[k].category = "park" /\ ls[k].name # "" THEN <<k>> ELSE <<>>)
         \o ParksFrom(ls, k + 1)

parks == ParksFrom(input, 1)

\* The number of turns of the script's loop.
Total ==
    CASE script = "extract" -> Len(Jobs)
      [] script = "parks"   -> Len(parks)
      [] OTHER              -> Len(input)

\* The top of each script up to its loop: the key check and the setup.
Preflight ==
    /\ script \in ApiScripts
    /\ pc = "start"
    /\ IF ~HasApiKey
       THEN /\ pc' = "done"
            /\ exit' = <<1>>
            /\ UNCHANGED <<out, side>>
       ELSE /\ pc' = "loop"
            /\ out' = IF script = "parks" THEN input ELSE <<>>
            /\ side' = IF script = "extract"
                       THEN [byId |-> <<>>, pages |-> 0, pageToken |-> FALSE]
                       ELSE <<>>
            /\ UNCHANGED exit
    /\ UNCHANGED <<pageVars, script, apiKey, input, idx, requests, errors,
                   written, nav>>

(* ---- review verification ---- *)

\* Reviews as the scan sees them: whether there is text, and which STRONG
\* keywords the text includes (part_007 lines 134-142).
PlainReview  == [hasText |-> TRUE, strongHits |-> {}]
StrongReview == [hasText |-> TRUE, strongHits |-> {"dog friendly", "leash"}]
BlankReview  == [hasText |-> FALSE, strongHits |-> {}]

ReviewResponses ==
    { [ok |-> TRUE, reviews |-> rs] :
        rs \in { <<>>, <<PlainReview>>, <<BlankReview, StrongReview>>,
                 <<StrongReview, PlainReview, StrongReview>> } }

RECURSIVE SumStrong(_)
SumStrong(reviews) ==
    IF reviews = <<>> THEN 0
    ELSE (IF Head(reviews).hasText THEN Cardinality(Head(reviews).strongHits) ELSE 0)
         + SumStrong(Tail(reviews))

KeywordSet(reviews) ==
    UNION {IF reviews[k].hasText THEN reviews[k].strongHits ELSE {} : k \in DOMAIN reviews}

\* Variant: without strong evidence the status is set back to "needs_check".
ReviewedListingReset(l, reviews) ==
    LET next == Put(l, "reviewEvidence",
                    [scannedReviews |-> Len(reviews),
                     dogFriendlyMentions |-> SumStrong(reviews),
                     keywords |-> KeywordSet(reviews)])
    IN IF SumStrong(reviews) > 0
       THEN Put(Put(next, "verificationStatus", "verified"), "verifiedBy", "reviews")
       ELSE Put(Put(next, "verificationStatus", "needs_check"), "verifiedBy", "")

\* The try block of part_007 lines 189-228.
ReviewedListing(l, reviews) ==
    LET next == Put(l, "reviewEvidence",
                    [scannedReviews |-> Len(reviews),
                     dogFriendlyMentions |-> SumStrong(reviews),
                     keywords |-> KeywordSet(reviews)])
    IN IF SumStrong(reviews) > 0
       THEN Put(Put(next, "verificationStatus", "verified"), "verifiedBy", "reviews")
       ELSE Put(next, "verifiedBy", next.verifiedBy)

\* One turn of the loop of part_007 lines 179-238.
ReviewsItem(response) ==
    /\ script = "reviews"
    /\ pc = "loop"
    /\ idx < Len(input)
    /\ LET l == input[idx + 1]
       IN IF l.id = ""
          THEN /\ out' = Append(out, l)
               /\ UNCHANGED <<requests, errors>>
          ELSE /\ requests' = requests + 1
               /\ IF ~response.ok
                  THEN /\ out' = Append(out, Put(l, "reviewEvidenceError",
                                                 response.message))
                       /\ errors' = errors \cup {idx + 1}
                  ELSE /\ out' = Append(out, ReviewedListing(l, response.reviews))
                       /\ UNCHANGED errors
    /\ idx' = idx + 1
    /\ UNCHANGED <<pageVars, script, apiKey, pc, input, side, written, exit, nav>>

(* ---- hours enrichment ---- *)

\* What fetchHours returns: the joined weekday descriptions ("" when there
\* are none) and openNow.
HoursResponses ==
    { [ok |-> TRUE, hoursStr |-> "Monday: 9-5", openNow |-> TRUE],
      [ok |-> TRUE, hoursStr |-> "", openNow |-> FALSE] }

\* One turn of the loop of part_009 lines 58-101.
HoursItem(response) ==
    /\ script = "hours"
    /\ pc = "loop"
    /\ idx < Len(input)
    /\ LET l == input[idx + 1]
       IN IF l.id = ""
          THEN /\ out' = Append(out, l)
               /\ UNCHANGED <<requests, errors>>
          ELSE /\ requests' = requests + 1
               /\ IF ~response.ok
                  THEN /\ out' = Append(out, Put(l, "hoursEnrichError",
                                                 response.message))
                       /\ errors' = errors \cup {idx + 1}
                  ELSE /\ out' = Append(out,
                            IF response.hoursStr # ""
                            THEN Put(Put(l, "hours", response.hoursStr),
                                     "openNow", <<response.openNow>>)
                            ELSE Put(Put(Put(l, "hours", ""), "openNow", Null),
                                     "hoursNeedsManualCheck", TRUE))
                       /\ UNCHANGED errors
    /\ idx' = idx + 1
    /\ UNCHANGED <<pageVars, script, apiKey, pc, input, side, written, exit, nav>>

(* ---- park verification ---- *)

Verdicts == {"dog_friendly", "not_dog_friendly", "unknown"}

\* The search answers, taken by what decideFromText makes of them.
SerpResponses == { [ok |-> TRUE, verdict |-> v] : v \in Verdicts }

\* updatedListings.findIndex((l) => l.id === park.id), line 175: 0 for none.
FindIndexById(arr, id) ==
    IF \E k \in DOMAIN arr : arr[k].id = id
    THEN CHOOSE k \in DOMAIN arr :
             arr[k].id = id /\ \A j \in 1..(k - 1) : arr[j].id # id
    ELSE 0

\* One turn of the loop of verify_parks_serpapi.mjs lines 143-220.
ParksItem(response) ==
    /\ script = "parks"
    /\ pc = "loop"
    /\ idx < Len(parks)
    /\ requests' = requests + 1
    /\ LET park == input[parks[idx + 1]]
       IN IF ~response.ok
          THEN /\ errors' = errors \cup {parks[idx + 1]}
               /\ side' = Append(side,
                     [id |-> park.id, verdict |-> "error",
                      setVerificationStatus |-> park.verificationStatus,
                      reason |-> response.message])
               /\ UNCHANGED out
          ELSE LET newStatus ==
                       CASE response.verdict = "dog_friendly"     -> "verified"
                         [] response.verdict = "not_dog_friendly" -> "needs_check"
                         [] OTHER -> park.verificationStatus
                   verifiedBy ==
                       IF response.verdict = "dog_friendly"
                       THEN "google_search_snippet"
                       ELSE park.verifiedBy
                   k == FindIndexById(out, park.id)
               IN /\ out' = IF k = 0 THEN out
                            ELSE [out EXCEPT ![k] =
                                   Put(Put(Put(out[k],
                                       "verificationStatus", newStatus),
                                       "verifiedBy", verifiedBy),
                                       "parkVerification",
                                       [verdict |-> response.verdict])]
                  /\ side' = Append(side,
                        [id |-> park.id, verdict |-> response.verdict,
                         setVerificationStatus |-> newStatus, reason |-> ""])
                  /\ UNCHANGED errors
    /\ idx' = idx + 1
    /\ UNCHANGED <<pageVars, script, apiKey, pc, input, written, exit, nav>>

(* ---- place extractor ---- *)

\* pages >= 3 of part_008 line 211.
MaxPages == 3

\* FILTER_MIN_RATING (4.0, here in tenths) and FILTER_MIN_REVIEWS.
FILTER_MIN_RATING == 40
FILTER_MIN_REVIEWS == 100

\* Places of the API: a good one, the same place again with a website and
\* more reviews, one below the rating filter, one without a location.
G1 == [id |-> "x1", lat |-> <<1>>, lng |-> <<1>>, rating |-> <<45>>,
       userRatingCount |-> <<200>>, websiteUri |-> ""]
G2 == [id |-> "x1", lat |-> <<1>>, lng |-> <<1>>, rating |-> <<45>>,
       userRatingCount |-> <<300>>, websiteUri |-> "w"]
G3 == [id |-> "x2", lat |-> <<2>>, lng |-> <<2>>, rating |-> <<35>>,
       userRatingCount |-> <<500>>, websiteUri |-> ""]
G4 == [id |-> "x3", lat |-> Null, lng |-> Null, rating |-> <<50>>,
       userRatingCount |-> <<900>>, websiteUri |-> ""]
G5 == [id |-> "x4", lat |-> <<0>>, lng |-> <<3>>, rating |-> <<41>>,
       userRatingCount |-> <<250>>, websiteUri |-> ""]

SearchResponses ==
    { [ok |-> TRUE, places |-> ps, nextPageToken |-> t] :
        ps \in { <<>>, <<G1, G3>>, <<G2, G4>>, <<G5>> }, t \in BOOLEAN }

\* toListing, part_008 lines 124-144 (address, phone and types are merged
\* the way website is and are left out).
toListing(place, categoryHint) ==
    [id |-> place.id, category |-> categoryHint, lat |-> place.lat,
     lng |-> place.lng, rating |-> place.rating,
     userRatingCount |-> place.userRatingCount, website |-> place.websiteUri]

\* The filters of lines 181-186.
PassesFilters(listing) ==
    /\ listing.lat # Null /\ listing.lng # Null
    /\ listing.rating # Null /\ listing.userRatingCount # Null
    /\ listing.rating[1] >= FILTER_MIN_RATING
    /\ listing.userRatingCount[1] >= FILTER_MIN_REVIEWS

\* Lines 189-202 for one listing; byId keeps the order of first insertion.
MergeById(byId, listing) ==
    IF \A k \in DOMAIN byId : byId[k].id # listing.id
    THEN Append(byId, Put(listing, "categories", <<listing.category>>))
    ELSE [k \in DOMAIN byId |->
            IF byId[k].id # listing.id THEN byId[k]
            ELSE [byId[k] EXCEPT
                    !.categories =
                        IF \E c \in DOMAIN @ : @[c] = listing.category
                        THEN @ ELSE Append(@, listing.category),
                    !.website = IF @ # "" THEN @ ELSE listing.website]]

\* The for loop of lines 177-203 over the places of one page.
RECURSIVE MergePlaces(_, _, _)
MergePlaces(byId, places, category) ==
    IF places = <<>> THEN byId
    ELSE MergePlaces(
             IF PassesFilters(toListing(Head(places), category))
             THEN MergeById(byId, toListing(Head(places), category))
             ELSE byId,
             Tail(places), category)

\* Variant: the loop pages for as long as the API returns a token.
LastPageNoCap(response, pages) == ~response.nextPageToken

\* The two breaks of lines 207-211, after pages += 1 of line 167: the page
\* just fetched is the job's last one.
LastPage(response, pages) == ~response.nextPageToken \/ pages + 1 >= MaxPages

\* One turn of the while loop of lines 166-212: one page request.
ExtractPage(response) ==
    /\ script = "extract"
    /\ pc = "loop"
    /\ idx < Len(Jobs)
    /\ requests' = requests + 1
    /\ IF ~response.ok
       THEN \* placesTextSearch throws, main rejects, line 247 exits
            /\ errors' = errors \cup {idx + 1}
            /\ pc' = "done"
            /\ exit' = <<1>>
            /\ side' = [side EXCEPT !.pages = @ + 1]
            /\ UNCHANGED idx
       ELSE /\ IF ~LastPage(response, side.pages)
               THEN /\ side' = [byId |-> MergePlaces(side.byId, response.places,
                                                     Jobs[idx + 1].category),
                                pages |-> side.pages + 1,
                                pageToken |-> TRUE]
                    /\ UNCHANGED idx
               ELSE /\ side' = [byId |-> MergePlaces(side.byId, response.places,
                                                     Jobs[idx + 1].category),
                                pages |-> 0,
                                pageToken |-> FALSE]
                    /\ idx' = idx + 1
            /\ UNCHANGED <<errors, pc, exit>>
    /\ UNCHANGED <<pageVars, script, apiKey, input, out, written, nav>>

\* Whether a comes before b in the sort of part_008 line 220, and in that
\* of line 330, whose ?? 0 reads a missing number as 0.
ResultBefore(a, b) ==
    \/ Coalesce(a.userRatingCount, 0) > Coalesce(b.userRatingCount, 0)
    \/ /\ Coalesce(a.userRatingCount, 0) = Coalesce(b.userRatingCount, 0)
       /\ Coalesce(a.rating, 0) > Coalesce(b.rating, 0)

RECURSIVE InsertResult(_, _)
InsertResult(sorted, x) ==
    IF sorted = <<>> THEN <<x>>
    ELSE IF ResultBefore(x, Head(sorted))
         THEN <<x>> \o sorted
         ELSE <<Head(sorted)>> \o InsertResult(Tail(sorted), x)

RECURSIVE SortResults(_)
SortResults(s) ==
    IF s = <<>> THEN <<>>
    ELSE InsertResult(SortResults(SubSeq(s, 1, Len(s) - 1)), s[Len(s)])

\* What the script hands to JSON.stringify at its end.
FinalOutput == IF script = "extract" THEN SortResults(side.byId) ELSE out

\* The end of main: the output files are written and the process ends.
WriteOutput ==
    /\ script \in ApiScripts
    /\ pc = "loop"
    /\ idx = Total
    /\ out' = FinalOutput
    /\ written' = [f \in DOMAIN written \cup {OutputFile(script), CsvFile(script)} |->
                     IF f = OutputFile(script) THEN FinalOutput
                     ELSE IF f = CsvFile(script)
                          THEN (IF script = "parks" THEN side ELSE FinalOutput)
                          ELSE written[f]]
    /\ pc' = "done"
    /\ exit' = <<0>>
    /\ UNCHANGED <<pageVars, script, apiKey, input, idx, side, requests, errors, nav>>

BatchInit ==
    /\ PageIdle
    /\ script \in ApiScripts
    /\ apiKey \in BOOLEAN
    /\ pc = "start"
    /\ input \in IF script = "extract" THEN {<<>>} ELSE BatchInputs
    /\ idx = 0
    /\ out = <<>>
    /\ side = <<>>
    /\ requests = 0
    /\ errors = {}
    /\ written = IF script = "extract" THEN <<>>
                 ELSE [f \in {LISTINGS_JSON} |-> input]
    /\ exit = Null
    /\ nav = Null

BatchNext ==
    \/ Preflight
    \/ \E response \in ReviewResponses \cup {ApiError} : ReviewsItem(response)
    \/ \E response \in HoursResponses \cup {ApiError} : HoursItem(response)
    \/ \E response \in SerpResponses \cup {ApiError} : ParksItem(response)
    \/ \E response \in SearchResponses \cup {ApiError} : ExtractPage(response)
    \/ WriteOutput

BatchSpec == BatchInit /\ [][BatchNext]_vars

\* C16: in each of the four scripts a failed API call does not end the
\* batch: every record or job is still processed and the output file is
\* written.
C16_ErrorDoesNotAbort ==
    (script \in ApiScripts /\ pc = "done" /\ errors # {}) =>
        /\ exit = <<0>>
        /\ idx = Total
        /\ OutputFile(script) \in DOMAIN written

\* C17: in the review, hours and park scripts the record written for a
\* listing whose call failed has every field of the input record unchanged
\* and in addition a field that holds the error.
C17_FailedRecordAnnotated ==
    (script \in {"reviews", "hours", "parks"} /\ pc = "done" /\ exit = <<0>>) =>
        \A i \in errors :
            LET rec == written[OutputFile(script)][i]
            IN /\ DOMAIN input[i] \subseteq DOMAIN rec
               /\ \A k \in DOMAIN input[i] : rec[k] = input[i][k]
               /\ \E k \in DOMAIN rec \ DOMAIN input[i] : rec[k] = ApiError.message

\* C18: without its API key a script makes no request and writes no output
\* file, never enters its loop, and ends with exit status 1.
C18_NoKeyExitsFirst ==
    (script \in ApiScripts /\ ~apiKey) =>
        /\ requests = 0
        /\ DOMAIN written \cap OutputFiles = {}
        /\ pc # "loop"
        /\ pc = "done" => exit = <<1>>

\* A script that had listings to work on has ended at its key check.
C18_Witness ==
    /\ script \in ApiScripts
    /\ ~apiKey
    /\ input # <<>>
    /\ pc = "done"
    /\ exit = <<1>>

-----------------------------------------------------------------------------
(* ConvertSpec: the scripts that turn one data file into another without
   calling an API.
     "clean"   src/scripts/cleanup_open_now.mjs lines 28-252 (clean/classify)
     "google"  src/unnamed/part_008 lines 252-334  (extractor output -> listings)
     "csv"     src/scripts/convert-csv-to-listings.mjs      (CSV -> listings)
   One step handles one input row.  Of a written record the model keeps the
   fields id, name, category, lat, lng and what the claims read besides. *)

ConvertScripts == {"clean", "google", "csv"}

OUT_JSON == "data/listings_sg_clean.json"
OUT_REJECTS_JSON == "data/listings_sg_rejected.json"

Bar     == <<"b", "a", "r">>
Inn     == <<"i", "n", "n">>
Park    == <<"p", "a", "r", "k">>
Lodging == <<"l", "o", "d", "g", "i", "n", "g">>

\* EXPECTED_BY_CATEGORY, lines 64-93, with the needles that the rows of the
\* model can contain.
EXPECTED_BY_CATEGORY ==
    [cafe  |-> [typesAny |-> {Bar},     nameAny |-> {Bar}],
     hotel |-> [typesAny |-> {Lodging}, nameAny |-> {Inn}],
     park  |-> [typesAny |-> {Park},    nameAny |-> {Park}]]

\* norm, lines 95-97.
norm(s) == trim(toLowerCase(s))

\* hasAny, lines 99-102.
hasAny(hay, needles) == \E n \in needles : includes(norm(hay), n)

\* types.join(" ")
RECURSIVE JoinWords(_)
JoinWords(words) ==
    IF words = <<>> THEN <<>>
    ELSE IF Len(words) = 1 THEN Head(words)
         ELSE Head(words) \o <<" ">> \o JoinWords(Tail(words))

\* typesHasAny, lines 104-107.
typesHasAny(types, needles) ==
    \E n \in needles : includes(toLowerCase(JoinWords(types)), n)

\* isObviousMismatch, lines 125-145.
isObviousMismatch(place) ==
    IF place.category \notin DOMAIN EXPECTED_BY_CATEGORY THEN FALSE
    ELSE LET expect == EXPECTED_BY_CATEGORY[place.category]
         IN ~(typesHasAny(place.types, expect.typesAny)
              \/ hasAny(place.name, expect.nameAny))

\* The basic sanity tests of lines 173-174.
IsSane(p) ==
    /\ p.id # ""
    /\ p.name # <<>>
    /\ p.lat # Null
    /\ p.lng # Null

\* The record of lines 183-206.
CleanedRecord(p) ==
    [id |-> p.id, name |-> p.name, category |-> p.category,
     lat |-> p.lat, lng |-> p.lng, googleTypes |-> p.types]

\* A loop body whose mismatch branch has lost its continue.
cleanRowNoContinue(p, kept, rejects) ==
    IF ~IsSane(p) THEN [cleaned |-> kept, rejected |-> rejects]
    ELSE [cleaned  |-> Append(kept, CleanedRecord(p)),
          rejected |-> IF isObviousMismatch(p)
                       THEN Append(rejects,
                                Put(p, "rejectReason", "obvious_category_mismatch"))
                       ELSE rejects]

\* The loop body of lines 171-209: cleaned and rejected after the row p.
cleanRow(p, kept, rejects) ==
    IF ~IsSane(p) THEN [cleaned |-> kept, rejected |-> rejects]
    ELSE IF isObviousMismatch(p)
         THEN [cleaned  |-> kept,
               rejected |-> Append(rejects,
                                Put(p, "rejectReason", "obvious_category_mismatch"))]
         ELSE [cleaned |-> Append(kept, CleanedRecord(p)), rejected |-> rejects]

\* Rows of the extractor's file: kept by name, rejected, kept by type,
\* without id, without name, without numeric lat, of a category that has no
\* expectations and an id that an earlier row has too.
CleanRows ==
    { [id |-> "c1", name |-> <<"B", "a", "r">>, category |-> "cafe",
       types |-> <<>>, lat |-> <<1>>, lng |-> <<1>>],
      [id |-> "c2", name |-> <<"Z", "o", "o">>, category |-> "hotel",
       types |-> <<>>, lat |-> <<1>>, lng |-> <<2>>],
      [id |-> "c3", name |-> <<"Z", "o", "o">>, category |-> "hotel",
       types |-> <<Park, Lodging>>, lat |-> <<2>>, lng |-> <<2>>],
      [id |-> "", name |-> <<"B", "a", "r">>, category |-> "cafe",
       types |-> <<>>, lat |-> <<1>>, lng |-> <<1>>],
      [id |-> "c5", name |-> <<>>, category |-> "park",
       types |-> <<Park>>, lat |-> <<1>>, lng |-> <<1>>],
      [id |-> "c6", name |-> <<"I", "n", "n">>, category |-> "hotel",
       types |-> <<Lodging>>, lat |-> Null, lng |-> <<1>>],
      [id |-> "c2", name |-> <<"a", " ", "b">>, category |-> "other",
       types |-> <<>>, lat |-> <<3>>, lng |-> <<1>>] }

\* One turn of the loop of lines 171-209.
CleanItem ==
    /\ script = "clean"
    /\ pc = "loop"
    /\ idx < Len(input)
    /\ out' = cleanRow(input[idx + 1], out, side).cleaned
    /\ side' = cleanRow(input[idx + 1], out, side).rejected
    /\ idx' = idx + 1
    /\ UNCHANGED <<pageVars, script, apiKey, pc, input, requests, errors, written,
                   exit, nav>>

\* The writes of lines 212-235.
WriteClean ==
    /\ script = "clean"
    /\ pc = "loop"
    /\ idx = Len(input)
    /\ written' = [f \in DOMAIN written \cup {OUT_JSON, OUT_REJECTS_JSON} |->
                     IF f = OUT_JSON THEN out
                     ELSE IF f = OUT_REJECTS_JSON THEN side ELSE written[f]]
    /\ pc' = "done"
    /\ exit' = <<0>>
    /\ UNCHANGED <<pageVars, script, apiKey, input, idx, out, side, requests,
                   errors, nav>>

(* ---- extractor output -> data/listings.json ---- *)

\* The types tests of part_008 lines 283-288, in their order.
TypeRules ==
    << [needle |-> <<"v", "e", "t", "e", "r", "i", "n", "a", "r", "y">>,
        category |-> "vet"],
       [needle |-> <<"a", "n", "i", "m", "a", "l", "_", "h", "o", "s", "p", "i",
                     "t", "a", "l">>,
        category |-> "vet"],
       [needle |-> <<"p", "e", "t", "_", "s", "t", "o", "r", "e">>,
        category |-> "supplies"],
       [needle |-> Park, category |-> "park"],
       [needle |-> <<"s", "h", "o", "p", "p", "i", "n", "g", "_", "m", "a", "l",
                     "l">>,
        category |-> "mall"],
       [needle |-> Lodging, category |-> "hotel"],
       [needle |-> <<"c", "a", "f", "e">>, category |-> "cafe"],
       [needle |-> <<"r", "e", "s", "t", "a", "u", "r", "a", "n", "t">>,
        category |-> "cafe"] >>

\* pickCategory, part_008 lines 272-292; categories is Null when the input
\* holds no array.
pickCategory(p) ==
    LET cats == IF p.categories = Null THEN <<>> ELSE p.categories
        t    == toLowerCase(JoinWords(p.types))
        Allowed(k) == cats[k] \in Categories
        Hit(k) == includes(t, TypeRules[k].needle)
    IN IF \E k \in DOMAIN cats : Allowed(k)
       THEN cats[CHOOSE k \in DOMAIN cats :
                   Allowed(k) /\ \A j \in 1..(k - 1) : ~Allowed(j)]
       ELSE IF \E k \in DOMAIN TypeRules : Hit(k)
            THEN TypeRules[CHOOSE k \in DOMAIN TypeRules :
                             Hit(k) /\ \A j \in 1..(k - 1) : ~Hit(j)].category
            ELSE "cafe"

\* The filter of part_008 line 299.
GoogleRowPasses(p) ==
    /\ p.id # ""
    /\ p.name # <<>>
    /\ p.lat # Null
    /\ p.lng # Null

\* The record of part_008 lines 303-327; cleanStr is trim.
GoogleListing(p) ==
    [id |-> p.id, name |-> trim(p.name), category |-> pickCategory(p),
     lat |-> p.lat, lng |-> p.lng,
     rating |-> p.rating, userRatingCount |-> p.userRatingCount,
     googleTypes |-> p.types]

\* Rows of data/listings_google.json: known categories, an unknown category
\* with a type, no categories array and no type, no numeric lat, and a row
\* with an empty array, a park type and no rating.
GoogleRows ==
    { [id |-> "x1", name |-> <<"B", "a", "r">>, categories |-> <<"cafe", "park">>,
       types |-> <<>>, lat |-> <<1>>, lng |-> <<1>>,
       rating |-> <<45>>, userRatingCount |-> <<200>>],
      [id |-> "x2", name |-> <<"Z", "o", "o">>, categories |-> <<"zoo">>,
       types |-> <<Lodging>>, lat |-> <<1>>, lng |-> <<2>>,
       rating |-> <<41>>, userRatingCount |-> <<200>>],
      [id |-> "x3", name |-> <<"Z", "o", "o">>, categories |-> Null,
       types |-> <<>>, lat |-> <<2>>, lng |-> <<2>>,
       rating |-> <<50>>, userRatingCount |-> <<900>>],
      [id |-> "x4", name |-> <<"I", "n", "n">>, categories |-> <<"hotel">>,
       types |-> <<Lodging>>, lat |-> Null, lng |-> <<1>>,
       rating |-> <<45>>, userRatingCount |-> <<300>>],
      [id |-> "x5", name |-> <<" ", "a">>, categories |-> <<>>,
       types |-> <<Bar, Park>>, lat |-> <<3>>, lng |-> <<1>>,
       rating |-> Null, userRatingCount |-> Null] }

(* ---- CSV -> data/listings.json ---- *)

\* String.prototype.toLowerCase on the category words of the rows.
LowerWord(w) ==
    CASE w = "Cafe" -> "cafe"
      [] w = "PARK" -> "park"
      [] OTHER      -> w

\* Number(text || 0) of convert-csv-to-listings.mjs lines 33-34, in tenths:
\* the empty text gives 0, text that is no number gives NaN, which
\* JSON.stringify writes as null.
NumberOrZero(text) ==
    CASE text = ""      -> <<0>>
      [] text = "1.3"   -> <<13>>
      [] text = "103.8" -> <<1038>>
      [] OTHER          -> Null

\* The record of convert-csv-to-listings.mjs lines 29-57 for the row at the
\* 1-based position k; a row's field holds what r.x || r.X picks.
CsvListing(r, k) ==
    [id |-> IF r.id # "" THEN r.id ELSE ToString(k),
     name |-> r.name,
     category |-> LowerWord(r.category),
     lat |-> NumberOrZero(r.lat),
     lng |-> NumberOrZero(r.lng)]

\* Rows of the CSV: a full row, a row without id and of a foreign category,
\* a row whose id is a number and that has no category and no lat, a row
\* with text for lat, and a second row with the id of the first.
CsvRows ==
    { [id |-> "a", name |-> "Bar", category |-> "Cafe",
       lat |-> "1.3", lng |-> "103.8"],
      [id |-> "", name |-> "Zoo", category |-> "restaurant",
       lat |-> "1.3", lng |-> "103.8"],
      [id |-> "2", name |-> "Inn", category |-> "",
       lat |-> "", lng |-> "103.8"],
      [id |-> "", name |-> "", category |-> "PARK",
       lat |-> "abc", lng |-> ""],
      [id |-> "a", name |-> "Koi", category |-> "vet",
       lat |-> "103.8", lng |-> "1.3"] }

\* The callbacks of part_008 lines 299-328 and of
\* convert-csv-to-listings.mjs lines 29-57 for the next row.
ConvertItem ==
    /\ script \in {"google", "csv"}
    /\ pc = "loop"
    /\ idx < Len(input)
    /\ out' = IF script = "csv"
              THEN Append(out, CsvListing(input[idx + 1], idx + 1))
              ELSE IF GoogleRowPasses(input[idx + 1])
                   THEN Append(out, GoogleListing(input[idx + 1]))
                   ELSE out
    /\ idx' = idx + 1
    /\ UNCHANGED <<pageVars, script, apiKey, pc, input, side, requests, errors,
                   written, exit, nav>>

\* The sort of part_008 line 330 and the write of line 332; the write of
\* convert-csv-to-listings.mjs line 59.
WriteListings ==
    /\ script \in {"google", "csv"}
    /\ pc = "loop"
    /\ idx = Len(input)
    /\ out' = IF script = "google" THEN SortResults(out) ELSE out
    /\ written' = [f \in DOMAIN written \cup {LISTINGS_JSON} |->
                     IF f = LISTINGS_JSON
                     THEN (IF script = "google" THEN SortResults(out) ELSE out)
                     ELSE written[f]]
    /\ pc' = "done"
    /\ exit' = <<0>>
    /\ UNCHANGED <<pageVars, script, apiKey, input, idx, side, requests, errors,
                   nav>>

\* The rows each script can find in its input file.
RowPool(sc) ==
    CASE sc = "clean"  -> CleanRows
      [] sc = "google" -> GoogleRows
      [] sc = "csv"    -> CsvRows

ConvertInit ==
    /\ PageIdle
    /\ script \in ConvertScripts
    /\ apiKey = FALSE
    /\ pc = "loop"
    /\ input \in UNION { [1..n -> RowPool(script)] : n \in 0..MaxData }
    /\ idx = 0
    /\ out = <<>>
    /\ side = <<>>
    /\ requests = 0
    /\ errors = {}
    /\ written = <<>>
    /\ exit = Null
    /\ nav = Null

ConvertNext ==
    \/ CleanItem
    \/ WriteClean
    \/ ConvertItem
    \/ WriteListings

ConvertSpec == ConvertInit /\ [][ConvertNext]_vars

\* What the clean/classify script requires of a row before it looks at it.
HasRequiredFields(p) ==
    p.id # "" /\ p.name # <<>> /\ p.lat # Null /\ p.lng # Null

RowKeys(s) ==
    [i \in DOMAIN s |-> <<s[i].id, s[i].name, s[i].category, s[i].lat, s[i].lng>>]

\* C19: of the rows handled so far, those without id, name or numeric
\* lat/lng are in neither output, the obvious mismatches among the others
\* are in rejected only and the rest are in cleaned only, in input order;
\* the script ends only after the last row and writes both outputs.
C19_CleanPartition ==
    script = "clean" =>
        LET handled == SubSeq(input, 1, idx)
            Kept(p) == HasRequiredFields(p) /\ ~isObviousMismatch(p)
            Rejected(p) == HasRequiredFields(p) /\ isObviousMismatch(p)
        IN /\ RowKeys(out) = RowKeys(SelectSeq(handled, Kept))
           /\ RowKeys(side) = RowKeys(SelectSeq(handled, Rejected))
           /\ pc = "done" =>
                 /\ idx = Len(input)
                 /\ written[OUT_JSON] = out
                 /\ written[OUT_REJECTS_JSON] = side

\* The script has ended on three rows of which it kept one, rejected one and
\* skipped one.
C19_Witness ==
    /\ script = "clean"
    /\ pc = "done"
    /\ Len(input) = 3
    /\ Len(out) = 1
    /\ Len(side) = 1

\* C20: every record the two conversion scripts write to data/listings.json
\* has a category of the closed set.
C20_CategoryInClosedSet ==
    (script \in {"google", "csv"} /\ pc = "done") =>
        \A k \in DOMAIN written[LISTINGS_JSON] :
            written[LISTINGS_JSON][k].category \in Categories

\* The CSV texts that are numerals.
CsvNumerals == {"1.3", "103.8"}

\* The input row gives both coordinates as numbers.
RowHasCoords(r) ==
    IF script = "csv"
    THEN r.lat \in CsvNumerals /\ r.lng \in CsvNumerals
    ELSE r.lat # Null /\ r.lng # Null

\* The number an input row gives for a coordinate.
RowCoord(v) == IF script = "csv" THEN NumberOrZero(v) ELSE v

\* C21: every record the two conversion scripts write to data/listings.json
\* has numeric lat and lng that are those of an input row which gives both
\* as numbers; a row that lacks one is not written with a substitute.
C21_CoordinatesFromInput ==
    (script \in {"google", "csv"} /\ pc = "done") =>
        \A k \in DOMAIN written[LISTINGS_JSON] :
            LET rec == written[LISTINGS_JSON][k]
            IN /\ rec.lat # Null
               /\ rec.lng # Null
               /\ \E i \in DOMAIN input :
                     /\ RowHasCoords(input[i])
                     /\ rec.id = (IF script = "csv"
                                  THEN CsvListing(input[i], i).id
                                  ELSE input[i].id)
                     /\ rec.lat = RowCoord(input[i].lat)
                     /\ rec.lng = RowCoord(input[i].lng)

\* The rows of the input that carry an id carry pairwise distinct ids.
GivenIdsDistinct ==
    \A i, j \in DOMAIN input :
        (i # j /\ input[i].id # "" /\ input[j].id # "") => input[i].id # input[j].id

\* C22: the records written to the listing collection have pairwise distinct
\* ids: the extractor keeps one record for each place id, and the CSV
\* conversion gives no two rows the same id.
C22_IdsDistinct ==
    /\ (script = "extract" /\ pc = "done" /\ exit = <<0>>) =>
          \A i, j \in DOMAIN out : i # j => out[i].id # out[j].id
    /\ (script = "csv" /\ pc = "done" /\ GivenIdsDistinct) =>
          \A i, j \in DOMAIN written[LISTINGS_JSON] :
              i # j => written[LISTINGS_JSON][i].id # written[LISTINGS_JSON][j].id

-----------------------------------------------------------------------------
(* haversineKm with its rounding, MapDirectory.tsx lines 503-512 *)

(***************************************************************************)
(* The pipeline above uses haversineKm in exact integers.  A double keeps  *)
(* 53 bits and every product of line 510 is rounded to them; here a number *)
(* keeps four decimal digits (HavScale) and every product is rounded to    *)
(* them, in the order the expression is evaluated:                         *)
(*     (sin(dLng/2)**2 * cos(lat1)) * cos(lat2).                           *)
(* At four digits the cosines of neighbouring grid latitudes differ only   *)
(* away from the equator, so the points of this specification lie at       *)
(* 60.00, 60.01 and 60.02 N.  Differences are small, so sin(d/2) is d/2    *)
(* and asin(sqrt(x)) is sqrt(x), as in the pipeline.                       *)
(***************************************************************************)

\* The fixed-point unit: a value v stands for v / HavScale.
HavScale == 10000

\* Latitudes in 0.01 degree units, and longitudes next to a meridian.
HavLats == {6000, 6001, 6002}

HavLngs == 0 .. 3

HavPoints == [lat : HavLats, lng : HavLngs]

\* Math.cos(toRad(lat)), lines 508-510, rounded to the unit.
CosFixed(lat) ==
    CASE lat = 6000 -> 5000
      [] lat = 6001 -> 4998
      [] lat = 6002 -> 4997

\* The product of two numbers, rounded to the unit (half up).
MulRound(x, y) == (x * y + HavScale \div 2) \div HavScale

\* Variant: a step to the south counts as no step.
haversineKmNorthOnly(a, b) ==
    LET dLat == IF b.lat > a.lat THEN b.lat - a.lat ELSE 0
        dLng == b.lng - a.lng
        sLat == (dLat * dLat * HavScale) \div 4
        sLng == (dLng * dLng * HavScale) \div 4
        x == sLat + MulRound(MulRound(sLng, CosFixed(a.lat)), CosFixed(b.lat))
    IN  (ISqrt(400 * x) * 1112) \div 1000

\* haversineKm, lines 503-512, in metres: sLat and sLng are sin(d/2)**2 in
\* squared grid units, x is line 510 and the result is 2 R asin(sqrt(x)) with
\* R times one grid unit = 1112 m.
haversineKmRounded(a, b) ==
    LET dLat == b.lat - a.lat
        dLng == b.lng - a.lng
        sLat == (dLat * dLat * HavScale) \div 4
        sLng == (dLng * dLng * HavScale) \div 4
        x == sLat + MulRound(MulRound(sLng, CosFixed(a.lat)), CosFixed(b.lat))
    IN  (ISqrt(400 * x) * 1112) \div 1000

HavInit ==
    /\ PageIdle
    /\ ScriptsIdle

\* One call of haversineKm(a, b), with the calls the claim compares it to.
CallHaversine(a, b) ==
    /\ hav' = [a |-> a, b |-> b,
               ab |-> haversineKmRounded(a, b),
               ba |-> haversineKmRounded(b, a),
               aa |-> haversineKmRounded(a, a)]
    /\ UNCHANGED <<listings, uiVars, mapVars, geoVars, scriptVars, popup,
                   popups, candidates, images, index, preloaders, imageFiles, detail>>

HavNext == \E a, b \in HavPoints : CallHaversine(a, b)

HavSpec == HavInit /\ [][HavNext]_vars

\* C23 as stated: haversineKm(a, b) = haversineKm(b, a) >= 0 and
\* haversineKm(a, a) = 0, for every pair of points.
C23_ExactlySymmetric ==
    hav # Null => (hav.ab = hav.ba /\ hav.ab >= 0 /\ hav.aa = 0)

\* C23: haversineKm is never negative, is zero from a point to itself, and
\* haversineKm(a, b) and haversineKm(b, a) differ by at most one unit of the
\* last place kept (here one metre).
C23_SymmetricWithinRounding ==
    hav # Null =>
        /\ hav.ab >= 0
        /\ hav.ba >= 0
        /\ hav.aa = 0
        /\ hav.ab - hav.ba <= 1
        /\ hav.ba - hav.ab <= 1

\* Two points that differ in both coordinates, whose two distances differ.
C23_Witness ==
    /\ hav # Null
    /\ hav.a.lat # hav.b.lat
    /\ hav.a.lng # hav.b.lng
    /\ hav.ab > 0
    /\ hav.ab # hav.ba

-----------------------------------------------------------------------------
(* The search box, MapDirectory.tsx lines 568-579, 591-601 and 964-993 *)

\* C24: a step that changes searchText and is not a clear leaves the applied
\* query, the results and the map's source (and schedules no source update);
\* the applied query changes only to the trimmed text (applySearch) or to
\* the empty text together with searchText (clearSearch); and when both are
\* empty the result is the category/radius-filtered sequence.
C24_TypingDoesNotSearch ==
    [][ /\ (searchText' # searchText /\ ~(searchText' = <<>> /\ appliedQuery' = <<>>))
            => UNCHANGED <<appliedQuery, filtered, searchFiltered,
                           listingsSource, effectPending>>
        /\ (searchText' # searchText /\ appliedQuery' = appliedQuery)
            => UNCHANGED <<filtered, searchFiltered, listingsSource>>
        /\ appliedQuery' # appliedQuery
            => \/ appliedQuery' = trim(searchText) /\ searchText' = searchText
               \/ appliedQuery' = <<>> /\ searchText' = <<>>
        /\ (mounted' /\ searchText' = <<>> /\ appliedQuery' = <<>>)
            => searchFiltered' = filtered'
      ]_vars

\* A query was typed with a leading space, applied trimmed and narrowed the
\* results, and the box was emptied by typing since: the query still applies.
C24_Witness ==
    /\ mounted
    /\ appliedQuery = <<"a", " ", "B">>
    /\ searchText = <<>>
    /\ searchFiltered # <<>>
    /\ Len(searchFiltered) < Len(filtered)

-----------------------------------------------------------------------------
(* The review script never downgrades, part_007 lines 189-237 *)

\* The strong keyword mentions recorded for an output record (0 when the
\* record carries no evidence: its call failed or it has no place id).
StrongMentions(rec) ==
    IF "reviewEvidence" \in DOMAIN rec THEN rec.reviewEvidence.dogFriendlyMentions
    ELSE 0

\* C25: in the review script a listing that was "verified" in the input is
\* "verified" in the output whatever its call returned, and a listing that
\* was not becomes "verified" only with verifiedBy "reviews" and at least
\* one strong keyword mention in its reviews.
C25_NeverDowngrades ==
    script = "reviews" =>
        \A k \in DOMAIN out :
            /\ input[k].verificationStatus = "verified"
                   => out[k].verificationStatus = "verified"
            /\ (out[k].verificationStatus = "verified"
                    /\ input[k].verificationStatus # "verified")
                   => (out[k].verifiedBy = "reviews" /\ StrongMentions(out[k]) > 0)
            /\ (out[k].verifiedBy = "reviews" /\ input[k].verifiedBy # "reviews")
                   => (out[k].verificationStatus = "verified"
                       /\ StrongMentions(out[k]) > 0)

\* A verified listing was scanned without strong evidence, another one's
\* call failed or found evidence, and an unverified listing was upgraded.
C25_Witness ==
    /\ script = "reviews"
    /\ pc = "done"
    /\ \E i, j \in DOMAIN out :
          /\ input[i].verificationStatus = "verified"
          /\ "reviewEvidence" \in DOMAIN out[i]
          /\ StrongMentions(out[i]) = 0
          /\ input[j].verificationStatus # "verified"
          /\ out[j].verificationStatus = "verified"

\* A verified listing whose call failed.
C25_WitnessFailed ==
    /\ script = "reviews"
    /\ \E i \in errors : i \in DOMAIN out /\ input[i].verificationStatus = "verified"

-----------------------------------------------------------------------------
(* The extractor's paging is bounded, part_008 lines 158-216 *)

\* C26: the extractor makes at most MaxPages (3) page requests for a job,
\* whatever the API returns, so the requests of the whole scan never exceed
\* three per job and the scan ends.
C26_PagingBounded ==
    (script = "extract" /\ pc # "start" /\ apiKey) =>
        /\ side.pages <= MaxPages
        /\ pc = "loop" => side.pages < MaxPages
        /\ requests <= idx * MaxPages + side.pages
        /\ requests <= Len(Jobs) * MaxPages
        /\ idx <= Len(Jobs)

\* Every page of every job came with a nextPageToken and the scan has ended.
C26_Witness ==
    /\ script = "extract"
    /\ pc = "done"
    /\ exit = <<0>>
    /\ requests = Len(Jobs) * MaxPages

-----------------------------------------------------------------------------
(* Overlapping location requests, MapDirectory.tsx lines 874-886 *)

\* No call of getCurrentPosition is waiting for its callback.
NoneOutstanding == \A i \in DOMAIN geoReq : geoReq[i].state # "pending"

\* C27: once no location request is outstanding, if the request issued last
\* succeeded then no error message is shown and userPos is its position.
C27_LatestRequestWins ==
    (geoReq # <<>> /\ NoneOutstanding /\ geoReq[Len(geoReq)].state = "ok") =>
        /\ geoError = Null
        /\ userPos = geoReq[Len(geoReq)].pos

-----------------------------------------------------------------------------
(* The detail popup of the main map, MapDirectory.tsx lines 628-671, 779-817
   and 827-831 *)

\* The most popups made in one behaviour.
MaxPopups == 3

\* The click handlers are registered in the load handler (lines 705-824).
HandlersOn == mounted /\ mapRef = "map" /\ mapLoaded /\ listingsSource # Null

\* The features a click can hit.
Features == IF listingsSource = Null THEN <<>> ELSE listingsSource[1]

\* closeOnClick: true (line 647) lets the library close a popup on a map
\* click by itself; popupRef is not told.  The popups that were on the map
\* before the click are closed when byLibrary, and left as they are otherwise.
LibraryClose(ps, byLibrary) ==
    [k \in DOMAIN ps |->
        IF byLibrary /\ k \in DOMAIN popups THEN [ps[k] EXCEPT !.open = FALSE]
        ELSE ps[k]]

\* A click on a point, lines 797-808: openPopupAt (lines 635-671) closes the
\* popup of popupRef and puts a new one there.  The catch-all handler of
\* lines 811-816 finds a feature and does nothing.
ClickPoint(k, byLibrary) ==
    /\ HandlersOn
    /\ k \in DOMAIN Features
    /\ Len(popups) < MaxPopups
    /\ popups' = LibraryClose(Append(closePopup, [id |-> Features[k].id, open |-> TRUE]),
                              byLibrary)
    /\ popup' = <<Len(popups) + 1>>
    /\ UNCHANGED <<listings, uiVars, mapVars, geoVars, scriptVars, hav,
                   candidates, images, index, preloaders, imageFiles, detail>>

\* A click on a cluster, lines 780-794: closePopup, then the zoom.
ClickCluster(byLibrary) ==
    /\ HandlersOn
    /\ Len(Features) >= 2
    /\ popups' = LibraryClose(closePopup, byLibrary)
    /\ popup' = Null
    /\ UNCHANGED <<listings, uiVars, mapVars, geoVars, scriptVars, hav,
                   candidates, images, index, preloaders, imageFiles, detail>>

\* A click on an empty area, lines 811-816: no feature is under the point.
ClickEmpty(byLibrary) ==
    /\ HandlersOn
    /\ popups' = LibraryClose(closePopup, byLibrary)
    /\ popup' = Null
    /\ UNCHANGED <<listings, uiVars, mapVars, geoVars, scriptVars, hav,
                   candidates, images, index, preloaders, imageFiles, detail>>

PopupNext ==
    \/ \E cat \in UiToggleCats : toggleCategory(cat)
    \/ MapLoad
    \/ UpdateGeojsonEffect
    \/ \E k \in 1..Len(SAMPLE_LISTINGS), byLibrary \in BOOLEAN : ClickPoint(k, byLibrary)
    \/ \E byLibrary \in BOOLEAN : ClickCluster(byLibrary)
    \/ \E byLibrary \in BOOLEAN : ClickEmpty(byLibrary)
    \/ Unmount

PopupSpec == Init /\ [][PopupNext]_vars

\* The popups that are on the map.
OpenPopups == {k \in DOMAIN popups : popups[k].open}

\* C28: at most one popup is on the map and it is the one popupRef holds;
\* a step that makes a popup leaves only the new one open; after a click on
\* a cluster or on an empty area, and after unmount, none is open.
C28_OnePopup ==
    [][ /\ Cardinality(OpenPopups') <= 1
        /\ OpenPopups' \subseteq (IF popup' = Null THEN {} ELSE {popup'[1]})
        /\ Len(popups') > Len(popups) => OpenPopups' = {Len(popups')}
        /\ (\E byLibrary \in BOOLEAN : ClickCluster(byLibrary) \/ ClickEmpty(byLibrary))
               => OpenPopups' = {}
        /\ ~mounted' => OpenPopups' = {}
      ]_vars

\* A second popup was opened for another point and is the only one open.
C28_Witness ==
    /\ Len(popups) >= 2
    /\ OpenPopups = {Len(popups)}
    /\ popups[1].id # popups[2].id

\* A popup was open when the component was unmounted.
C28_WitnessUnmounted ==
    /\ ~mounted
    /\ popups # <<>>
    /\ OpenPopups = {}

-----------------------------------------------------------------------------
(* The image carousel, src/components/ListingImageCarousel.tsx *)

\* maxImages of the model (the prop's default is 5).
MaxImages == 2

\* `/listing-images/${listingId}/${i}.jpg` and .png: a url is its slot and
\* its extension.
Url(i, ext) == [slot |-> i, ext |-> ext]

\* initialCandidates, lines 23-30: jpg then png, slot by slot.
initialCandidates ==
    [k \in 1..(2 * MaxImages) |->
        [slot |-> (k + 1) \div 2,
         url |-> Url((k + 1) \div 2, IF k % 2 = 1 THEN "jpg" ELSE "png")]]

CandidateUrls(cs) == {cs[k].url : k \in DOMAIN cs}

\* The preloaders still mounted and waiting once the event of url has been
\* handled: the handler only queues state updates, the elements stay until
\* the next render.
MountedAfterEvent(url, cs) == preloaders \ {url}

\* The first render: every candidate has a hidden preloader, lines 66-77.
CarouselInit ==
    /\ DirectoryIdle
    /\ ScriptsIdle
    /\ popup = Null
    /\ popups = <<>>
    /\ hav = Null
    /\ detail = Null
    /\ imageFiles \in SUBSET CandidateUrls(initialCandidates)
    /\ candidates = initialCandidates
    /\ images = <<>>
    /\ index = 0
    /\ preloaders = CandidateUrls(initialCandidates)

\* array.slice(0, n)
Slice(seq, n) == SubSeq(seq, 1, IF Len(seq) < n THEN Len(seq) ELSE n)

\* onLoad of a preloader, handleLoad of lines 36-43.
ImageLoad(c) ==
    /\ c.url \in preloaders
    /\ c.url \in imageFiles
    /\ candidates' = SelectSeq(candidates, LAMBDA x : x.slot # c.slot)
    /\ images' = IF \E k \in DOMAIN images : images[k] = c.url THEN images
                 ELSE Slice(Append(images, c.url), MaxImages)
    /\ preloaders' = MountedAfterEvent(c.url, candidates')
    /\ UNCHANGED <<listings, uiVars, mapVars, geoVars, scriptVars, popup,
                   popups, hav, index, imageFiles, detail>>

\* onError of a preloader, handleError of lines 45-47.
ImageError(c) ==
    /\ c.url \in preloaders
    /\ c.url \notin imageFiles
    /\ candidates' = SelectSeq(candidates, LAMBDA x : x.url # c.url)
    /\ preloaders' = MountedAfterEvent(c.url, candidates')
    /\ UNCHANGED <<listings, uiVars, mapVars, geoVars, scriptVars, popup,
                   popups, hav, images, index, imageFiles, detail>>

\* The render that follows the queued updates: lines 66-77 keep a preloader
\* only for the candidates that are left.
CarouselRender ==
    /\ preloaders # preloaders \cap CandidateUrls(candidates)
    /\ preloaders' = preloaders \cap CandidateUrls(candidates)
    /\ UNCHANGED <<listings, uiVars, mapVars, geoVars, scriptVars, popup,
                   popups, hav, candidates, images, index, imageFiles, detail>>

\* prev, lines 52-54, from a render that showed n images (the buttons are
\* there when n > 1, line 91); images has only grown since.
prev(n) ==
    /\ n \in 2..Len(images)
    /\ index' = (index - 1 + n) % n
    /\ UNCHANGED <<listings, uiVars, mapVars, geoVars, scriptVars, popup,
                   popups, hav, candidates, images, preloaders, imageFiles, detail>>

\* next, lines 56-58.
next(n) ==
    /\ n \in 2..Len(images)
    /\ index' = (index + 1) % n
    /\ UNCHANGED <<listings, uiVars, mapVars, geoVars, scriptVars, popup,
                   popups, hav, candidates, images, preloaders, imageFiles, detail>>

\* A dot button, lines 110-116.
setIndex(i) ==
    /\ Len(images) > 1
    /\ i \in 0..(Len(images) - 1)
    /\ i # index
    /\ index' = i
    /\ UNCHANGED <<listings, uiVars, mapVars, geoVars, scriptVars, popup,
                   popups, hav, candidates, images, preloaders, imageFiles, detail>>

CarouselNext ==
    \/ \E k \in 1..(2 * MaxImages) : ImageLoad(initialCandidates[k])
    \/ \E k \in 1..(2 * MaxImages) : ImageError(initialCandidates[k])
    \/ CarouselRender
    \/ \E n \in 2..MaxImages : prev(n)
    \/ \E n \in 2..MaxImages : next(n)
    \/ \E i \in 0..(MaxImages - 1) : setIndex(i)

CarouselSpec == CarouselInit /\ [][CarouselNext]_vars

\* The slots 1..maxImages that have an entry in images.
SlotsOf(imgs) == {imgs[k].slot : k \in DOMAIN imgs}

\* The list holds at most maxImages urls and the index is that of an entry
\* (0 while the list is empty, when nothing is displayed).
CarouselBounded ==
    /\ Len(images) <= MaxImages
    /\ index >= 0
    /\ images # <<>> => index < Len(images)
    /\ images = <<>> => index = 0

\* C29: whatever the order of the load and error events, images holds at
\* most one url per slot (never the jpg and the png of one slot) and at most
\* maxImages urls, and index refers to an entry of images.
C29_OneUrlPerSlot ==
    /\ \A i, j \in DOMAIN images : i # j => images[i].slot # images[j].slot
    /\ CarouselBounded


-----------------------------------------------------------------------------
(* The nearby list of the detail page, part_004 lines 70-87 and 240-254 *)

\* The most listings in the data file of a detail page.
MaxNearbyData == 12

\* filter(l => l.distanceKm <= 3), in metres.
NearbyRadiusM == 3000

\* slice(0, 8)
NearbyLimit == 8

\* Three ways to lay listings out on the grid; the unit is 1112 m, so a
\* listing two units away in both directions is beyond 3 km.
Layouts == {1, 2, 3}

DetailListing(k, layout) ==
    [id |-> k, lat |-> (k * layout) % 4, lng |-> (k + layout * (k \div 3)) % 4]

\* The data files: n listings with the ids 1..n.
DetailFiles ==
    { [k \in 1..n |-> DetailListing(k, layout)] :
        n \in 0..MaxNearbyData, layout \in Layouts }

\* Array.prototype.sort with (a, b) => a.distanceKm - b.distanceKm: stable.
RECURSIVE NearbyInsert(_, _)
NearbyInsert(sorted, x) ==
    IF sorted = <<>> THEN <<x>>
    ELSE IF x.distanceKm < Head(sorted).distanceKm
         THEN <<x>> \o sorted
         ELSE <<Head(sorted)>> \o NearbyInsert(Tail(sorted), x)

RECURSIVE NearbySort(_)
NearbySort(s) ==
    IF s = <<>> THEN <<>>
    ELSE NearbyInsert(NearbySort(SubSeq(s, 1, Len(s) - 1)), s[Len(s)])

\* The map of lines 78-84.
NearbyWithDistance(listing, others) ==
    [k \in DOMAIN others |->
        Put(others[k], "distanceKm", haversineKm(listing, others[k]))]

\* Variant: the list is cut to 8 before it is sorted.
NearbyOfCutFirst(listing) ==
    LET others == SelectSeq(getAllListings, LAMBDA l : l.id # listing.id)
        inside == SelectSeq(NearbyWithDistance(listing, others),
                            LAMBDA l : l.distanceKm <= NearbyRadiusM)
    IN  NearbySort(Slice(inside, NearbyLimit))

\* nearby, lines 76-87 (and 246-254).
NearbyOf(listing) ==
    LET others == SelectSeq(getAllListings, LAMBDA l : l.id # listing.id)
        inside == SelectSeq(NearbyWithDistance(listing, others),
                            LAMBDA l : l.distanceKm <= NearbyRadiusM)
    IN  Slice(NearbySort(inside), NearbyLimit)

DetailInit ==
    /\ DirectoryIdle
    /\ popup = Null
    /\ WidgetsIdle
    /\ script = "none"
    /\ apiKey = FALSE
    /\ pc = "done"
    /\ input = <<>>
    /\ idx = 0
    /\ out = <<>>
    /\ side = <<>>
    /\ requests = 0
    /\ errors = {}
    /\ written \in {[f \in {LISTINGS_JSON} |-> data] : data \in DetailFiles}
    /\ exit = Null
    /\ nav = Null

\* ListingPage for the k-th listing of the file, lines 70-87.
DetailPage(k) ==
    /\ k \in DOMAIN getAllListings
    /\ detail' = [listing |-> getAllListings[k],
                  nearby |-> NearbyOf(getAllListings[k])]
    /\ UNCHANGED <<listings, uiVars, mapVars, geoVars, scriptVars, popup,
                   popups, hav, candidates, images, index, preloaders, imageFiles>>

DetailNext == \E k \in 1..MaxNearbyData : DetailPage(k)

DetailSpec == DetailInit /\ [][DetailNext]_vars

\* The listings of the file that qualify for the nearby list of the page.
Qualifying ==
    {k \in DOMAIN getAllListings :
        /\ getAllListings[k].id # detail.listing.id
        /\ haversineKm(detail.listing, getAllListings[k]) <= NearbyRadiusM}

\* C30: the nearby list of a detail page does not contain the page's
\* listing, holds only listings of the file at most 3 km away with their
\* distance, is in non-decreasing order of distance, has at most 8 entries,
\* and no listing that qualifies and was left out is nearer than an entry
\* (one is left out only when the list is full).
C30_NearbyList ==
    detail # Null =>
        LET nearby == detail.nearby
        IN  /\ \A i \in DOMAIN nearby :
                  /\ nearby[i].id # detail.listing.id
                  /\ nearby[i].distanceKm <= NearbyRadiusM
                  /\ \E k \in Qualifying :
                        /\ getAllListings[k].id = nearby[i].id
                        /\ nearby[i].distanceKm
                              = haversineKm(detail.listing, getAllListings[k])
            /\ \A i, j \in DOMAIN nearby :
                  i < j => (nearby[i].distanceKm <= nearby[j].distanceKm
                            /\ nearby[i].id # nearby[j].id)
            /\ Len(nearby) <= NearbyLimit
            /\ Len(nearby) = IF Cardinality(Qualifying) < NearbyLimit
                             THEN Cardinality(Qualifying) ELSE NearbyLimit
            /\ \A k \in Qualifying :
                  (\A i \in DOMAIN nearby : nearby[i].id # getAllListings[k].id)
                     => \A i \in DOMAIN nearby :
                           nearby[i].distanceKm
                             <= haversineKm(detail.listing, getAllListings[k])

\* More than 8 listings qualify, one lies beyond 3 km, and the file order of
\* the qualifying listings is not their order of distance.
C30_Witness ==
    /\ detail # Null
    /\ Len(detail.nearby) = NearbyLimit
    /\ Cardinality(Qualifying) > NearbyLimit
    /\ \E k \in DOMAIN getAllListings :
          haversineKm(detail.listing, getAllListings[k]) > NearbyRadiusM
    /\ \E i, j \in Qualifying :
          /\ i < j
          /\ haversineKm(detail.listing, getAllListings[j])
                < haversineKm(detail.listing, getAllListings[i])

====
